---- MODULE Spec2Model ----
(***************************************************************************)
(* YTLantern server: resolution and download orchestration.                *)
(*                                                                         *)
(* The server is one Node.js process.  Every handler drives its external   *)
(* tools with execSync, so a handler runs from start to end without any    *)
(* other handler of the process interleaving: one action per handler.      *)
(* JavaScript strings are sequences of one-character strings; Chars gives  *)
(* the characters of a literal.  The temporary-storage tree is a function  *)
(* from paths (sequences of path components) to nodes.                     *)
(***************************************************************************)
EXTENDS Integers, Sequences, FiniteSets, TLC

VARIABLES now, fs, pendingMkdir, req, resp, events, rateLimitStore, inbox,
          running, videoStore

vars == <<now, fs, pendingMkdir, req, resp, events, rateLimitStore, inbox,
         running, videoStore>>

\* BEGIN string literals
\* the literals, the position in Letters at which the characters of each
\* start (one more entry for the end), and the characters of all of them
Literals ==
  <<
   " ", " '", " --merge-output-format ", " --merge-output-format mp4",
   " --skip-download --write-info-json ", " -f ", " -k --write-info-json",
   " -o '", "%", "% /", "&p=1", "' ", "' '", "' -o '", "' -y",
   "' 2> /dev/null",
   "'https://www.bilibili.com/video/BV1ERROR17mD/?spm=1&p=1'", "+",
   "--cookies /app/server/cookies.txt", "--recode ", "--write-auto-sub",
   "--write-sub", "-1", ".", ".%(ext)s' ", ".ass", ".exe", ".info.json",
   ".lrc", ".srt", ".vtt", ".vtt2", ".xml", ".youtube.com/", "/",
   "/%(id)s.%(ext)s' ", "/app/tmp", "/dev/sda1        50G   45G  5.0G  ",
   "1", "100", "1080", "1080p", "1080p Full HD", "123", "13 7", "137",
   "137+140", "137x140", "140", "1440", "1440p", "1440p 2K", "144p", "1a",
   "2", "2160", "2160p", "2160p 4K", "240p", "2K", "2k", "30080", "360",
   "360p", "360p liuchang", "45", "480", "480p", "480p biaoqing", "4K",
   "4K HDR", "4k", "720", "720p", "720p HD", "720p60", "90", "91", ": ",
   "<download failed>", "?", "???", "?p=", "?p=1",
   "ABCDEFGHIJKLMNOPQRSTUVWXYZ", "Available automatic captions for ",
   "Available subtitles for ", "BV1ERROR17mD", "BV1ERROR17mD?p=1",
   "BV1xx411c7mD123", "Command failed", "Command failed: ",
   "Conversion failed", "Download not found", "EN",
   "ENOENT: no such file or directory", "ERROR", "ERROR: Video unavailable",
   "ERROR: first", "ERROR: second", "Error: ", "Error: Command failed: ",
   "Error: spawnSync /bin/sh ETIMEDOUT",
   "Filesystem      Size  Used Avail Use% Mounted on", "Full HD", "HD",
   "Invalid URL format", "Invalid format specification",
   "Invalid locale format", "Invalid part number",
   "Invalid part number format", "Invalid subtitle extension",
   "Invalid subtitle type", "Invalid video ID format", "Language",
   "Language ", "Language Name Formats", "Low",
   "Missing required parameters", "Never Gonna Give You Up", "Premium", "SD",
   "URL parameter is required", "Unexpected token in JSON", "Unknown",
   "Unknown cause", "Unknown dest", "Video ID and format are required",
   "WARNING: got ERROR 403, ERROR: giving up", "WARNING: retrying",
   "WARNING: unable to extract", "[download] 100% of 1.00MiB",
   "[download] Destination: ",
   "[info] Available automatic captions for dQw4w9WgXcQ:",
   "[info] Available subtitles for dQw4w9WgXcQ:",
   "[info] Writing video metadata as JSON", "[info] done", "_merged", "_p",
   "abcdefghijklmnopqrstuvwxyz", "af Afrikaans vtt, ttml", "auto",
   "bilibili.com", "bilibili.com/video/", "converted to ", "dQw4w9WgXc!",
   "dQw4w9WgXcQ", "dQw4w9WgXcQ has no automatic captions",
   "dQw4w9WgXcQ has no subtitles", "danmaku", "danmaku xml", "df -h .", "e",
   "en", "en English vtt", "en English vtt, ttml", "en-U", "en-USUSA",
   "es-419 Spanish (Latin America) vtt", "ffmpeg -i '", "files/", "full hd",
   "hd", "hello", "http://", "https://",
   "https://m.bilibili.com/video/BV1ERROR17mD?spm=1&p=3",
   "https://m.youtube.com/watch?v=dQw4w9WgXcQ",
   "https://vimeo.com/12345678901",
   "https://www.bilibili.com/bangumi/play/ep123456789",
   "https://www.bilibili.com/video/",
   "https://www.bilibili.com/video/BV1ERROR17mD",
   "https://www.bilibili.com/video/BV1ERROR17mD/?spm=1",
   "https://www.bilibili.com/video/BV1ERROR17mD?p=1",
   "https://www.bilibili.com/video/BV1ERROR17mD?p=2",
   "https://www.bilibili.com/video/short",
   "https://www.youtube.com/embed/dQw4w9WgXcQ",
   "https://www.youtube.com/embed/dQw4w9WgXcQ?start=5",
   "https://www.youtube.com/playlist?list=PL123456789",
   "https://www.youtube.com/shorts/dQw4w9WgXcQ",
   "https://www.youtube.com/shorts/dQw4w9WgXcQ?feature=share",
   "https://www.youtube.com/watch?feature=share&v=dQw4w9WgXcQ",
   "https://www.youtube.com/watch?list=PL1&v=dQw4w9WgXcQ&t=42",
   "https://www.youtube.com/watch?v=",
   "https://www.youtube.com/watch?v=dQw4w9WgXcQ",
   "https://www.youtube.com/watch?v=dQw4w9WgXcQ&t=42",
   "https://youtu.be/dQw4w9WgXcQ", "https://youtu.be/dQw4w9WgXcQ?t=42",
   "https://youtube.com/embed/dQw4w9WgXcQ", "info/", "json", "m", "m.",
   "manual", "mp4", "native", "p", "p=", "p=1", "parse failed: ", "short",
   "shorts", "spawnSync /bin/sh ETIMEDOUT", "srt", "storyboard", "unknown",
   "unsupported URL: provide a YouTube or Bilibili video URL", "v=", "vtt",
   "watch", "webm", "world", "www", "www.", "x", "x1", "xml", "youtu.be",
   "youtu.be/", "youtube.com", "youtube.com/embed/", "youtube.com/v/",
   "youtube.com/watch?", "yt-dlp ", "yt-dlp --list-subs ",
   "yt-dlp --print-json --skip-download ", "yt-dlp --sub-lang '", "zh-Hans",
   "zh-Hans Chinese (Simplified) vtt"
  >>
Starts ==
  <<
   1, 2, 4, 27, 53, 88, 92, 113, 118, 119, 122, 126, 128, 131, 137, 141, 155,
   211, 212, 245, 254, 270, 281, 283, 284, 294, 298, 302, 312, 316, 320, 324,
   329, 333, 346, 347, 364, 372, 406, 407, 410, 414, 419, 432, 435, 439, 442,
   449, 456, 459, 463, 468, 476, 480, 482, 483, 487, 492, 500, 504, 506, 508,
   513, 516, 520, 533, 535, 538, 542, 555, 557, 563, 565, 568, 572, 579, 585,
   587, 589, 591, 608, 609, 612, 615, 619, 645, 678, 702, 714, 730, 745, 759,
   775, 792, 810, 812, 845, 850, 874, 886, 899, 906, 929, 963, 1011, 1018,
   1020, 1038, 1066, 1087, 1106, 1132, 1158, 1179, 1202, 1210, 1219, 1240,
   1243, 1270, 1293, 1300, 1302, 1327, 1351, 1358, 1371, 1383, 1415, 1455,
   1472, 1498, 1524, 1548, 1600, 1643, 1680, 1691, 1698, 1700, 1726, 1748,
   1752, 1764, 1783, 1796, 1807, 1818, 1855, 1883, 1890, 1901, 1908, 1909,
   1911, 1925, 1945, 1949, 1957, 1991, 2002, 2008, 2015, 2017, 2022, 2029,
   2037, 2088, 2129, 2158, 2207, 2238, 2281, 2331, 2378, 2425, 2461, 2502,
   2551, 2600, 2642, 2698, 2755, 2812, 2844, 2887, 2935, 2963, 2996, 3033,
   3038, 3042, 3043, 3045, 3051, 3054, 3060, 3061, 3063, 3066, 3080, 3085,
   3091, 3118, 3121, 3131, 3138, 3194, 3196, 3199, 3204, 3208, 3213, 3216,
   3220, 3221, 3223, 3226, 3234, 3243, 3254, 3272, 3286, 3304, 3311, 3330,
   3366, 3385, 3392, 3424
  >>
Letters ==
  <<
   " ", " ", "'", " ", "-", "-", "m", "e", "r", "g", "e", "-", "o", "u", "t",
   "p", "u", "t", "-", "f", "o", "r", "m", "a", "t", " ", " ", "-", "-", "m",
   "e", "r", "g", "e", "-", "o", "u", "t", "p", "u", "t", "-", "f", "o", "r",
   "m", "a", "t", " ", "m", "p", "4", " ", "-", "-", "s", "k", "i", "p", "-",
   "d", "o", "w", "n", "l", "o", "a", "d", " ", "-", "-", "w", "r", "i", "t",
   "e", "-", "i", "n", "f", "o", "-", "j", "s", "o", "n", " ", " ", "-", "f",
   " ", " ", "-", "k", " ", "-", "-", "w", "r", "i", "t", "e", "-", "i", "n",
   "f", "o", "-", "j", "s", "o", "n", " ", "-", "o", " ", "'", "%", "%", " ",
   "/", "&", "p", "=", "1", "'", " ", "'", " ", "'", "'", " ", "-", "o", " ",
   "'", "'", " ", "-", "y", "'", " ", "2", ">", " ", "/", "d", "e", "v", "/",
   "n", "u", "l", "l", "'", "h", "t", "t", "p", "s", ":", "/", "/", "w", "w",
   "w", ".", "b", "i", "l", "i", "b", "i", "l", "i", ".", "c", "o", "m", "/",
   "v", "i", "d", "e", "o", "/", "B", "V", "1", "E", "R", "R", "O", "R", "1",
   "7", "m", "D", "/", "?", "s", "p", "m", "=", "1", "&", "p", "=", "1", "'",
   "+", "-", "-", "c", "o", "o", "k", "i", "e", "s", " ", "/", "a", "p", "p",
   "/", "s", "e", "r", "v", "e", "r", "/", "c", "o", "o", "k", "i", "e", "s",
   ".", "t", "x", "t", "-", "-", "r", "e", "c", "o", "d", "e", " ", "-", "-",
   "w", "r", "i", "t", "e", "-", "a", "u", "t", "o", "-", "s", "u", "b", "-",
   "-", "w", "r", "i", "t", "e", "-", "s", "u", "b", "-", "1", ".", ".", "%",
   "(", "e", "x", "t", ")", "s", "'", " ", ".", "a", "s", "s", ".", "e", "x",
   "e", ".", "i", "n", "f", "o", ".", "j", "s", "o", "n", ".", "l", "r", "c",
   ".", "s", "r", "t", ".", "v", "t", "t", ".", "v", "t", "t", "2", ".", "x",
   "m", "l", ".", "y", "o", "u", "t", "u", "b", "e", ".", "c", "o", "m", "/",
   "/", "/", "%", "(", "i", "d", ")", "s", ".", "%", "(", "e", "x", "t", ")",
   "s", "'", " ", "/", "a", "p", "p", "/", "t", "m", "p", "/", "d", "e", "v",
   "/", "s", "d", "a", "1", " ", " ", " ", " ", " ", " ", " ", " ", "5", "0",
   "G", " ", " ", " ", "4", "5", "G", " ", " ", "5", ".", "0", "G", " ", " ",
   "1", "1", "0", "0", "1", "0", "8", "0", "1", "0", "8", "0", "p", "1", "0",
   "8", "0", "p", " ", "F", "u", "l", "l", " ", "H", "D", "1", "2", "3", "1",
   "3", " ", "7", "1", "3", "7", "1", "3", "7", "+", "1", "4", "0", "1", "3",
   "7", "x", "1", "4", "0", "1", "4", "0", "1", "4", "4", "0", "1", "4", "4",
   "0", "p", "1", "4", "4", "0", "p", " ", "2", "K", "1", "4", "4", "p", "1",
   "a", "2", "2", "1", "6", "0", "2", "1", "6", "0", "p", "2", "1", "6", "0",
   "p", " ", "4", "K", "2", "4", "0", "p", "2", "K", "2", "k", "3", "0", "0",
   "8", "0", "3", "6", "0", "3", "6", "0", "p", "3", "6", "0", "p", " ", "l",
   "i", "u", "c", "h", "a", "n", "g", "4", "5", "4", "8", "0", "4", "8", "0",
   "p", "4", "8", "0", "p", " ", "b", "i", "a", "o", "q", "i", "n", "g", "4",
   "K", "4", "K", " ", "H", "D", "R", "4", "k", "7", "2", "0", "7", "2", "0",
   "p", "7", "2", "0", "p", " ", "H", "D", "7", "2", "0", "p", "6", "0", "9",
   "0", "9", "1", ":", " ", "<", "d", "o", "w", "n", "l", "o", "a", "d", " ",
   "f", "a", "i", "l", "e", "d", ">", "?", "?", "?", "?", "?", "p", "=", "?",
   "p", "=", "1", "A", "B", "C", "D", "E", "F", "G", "H", "I", "J", "K", "L",
   "M", "N", "O", "P", "Q", "R", "S", "T", "U", "V", "W", "X", "Y", "Z", "A",
   "v", "a", "i", "l", "a", "b", "l", "e", " ", "a", "u", "t", "o", "m", "a",
   "t", "i", "c", " ", "c", "a", "p", "t", "i", "o", "n", "s", " ", "f", "o",
   "r", " ", "A", "v", "a", "i", "l", "a", "b", "l", "e", " ", "s", "u", "b",
   "t", "i", "t", "l", "e", "s", " ", "f", "o", "r", " ", "B", "V", "1", "E",
   "R", "R", "O", "R", "1", "7", "m", "D", "B", "V", "1", "E", "R", "R", "O",
   "R", "1", "7", "m", "D", "?", "p", "=", "1", "B", "V", "1", "x", "x", "4",
   "1", "1", "c", "7", "m", "D", "1", "2", "3", "C", "o", "m", "m", "a", "n",
   "d", " ", "f", "a", "i", "l", "e", "d", "C", "o", "m", "m", "a", "n", "d",
   " ", "f", "a", "i", "l", "e", "d", ":", " ", "C", "o", "n", "v", "e", "r",
   "s", "i", "o", "n", " ", "f", "a", "i", "l", "e", "d", "D", "o", "w", "n",
   "l", "o", "a", "d", " ", "n", "o", "t", " ", "f", "o", "u", "n", "d", "E",
   "N", "E", "N", "O", "E", "N", "T", ":", " ", "n", "o", " ", "s", "u", "c",
   "h", " ", "f", "i", "l", "e", " ", "o", "r", " ", "d", "i", "r", "e", "c",
   "t", "o", "r", "y", "E", "R", "R", "O", "R", "E", "R", "R", "O", "R", ":",
   " ", "V", "i", "d", "e", "o", " ", "u", "n", "a", "v", "a", "i", "l", "a",
   "b", "l", "e", "E", "R", "R", "O", "R", ":", " ", "f", "i", "r", "s", "t",
   "E", "R", "R", "O", "R", ":", " ", "s", "e", "c", "o", "n", "d", "E", "r",
   "r", "o", "r", ":", " ", "E", "r", "r", "o", "r", ":", " ", "C", "o", "m",
   "m", "a", "n", "d", " ", "f", "a", "i", "l", "e", "d", ":", " ", "E", "r",
   "r", "o", "r", ":", " ", "s", "p", "a", "w", "n", "S", "y", "n", "c", " ",
   "/", "b", "i", "n", "/", "s", "h", " ", "E", "T", "I", "M", "E", "D", "O",
   "U", "T", "F", "i", "l", "e", "s", "y", "s", "t", "e", "m", " ", " ", " ",
   " ", " ", " ", "S", "i", "z", "e", " ", " ", "U", "s", "e", "d", " ", "A",
   "v", "a", "i", "l", " ", "U", "s", "e", "%", " ", "M", "o", "u", "n", "t",
   "e", "d", " ", "o", "n", "F", "u", "l", "l", " ", "H", "D", "H", "D", "I",
   "n", "v", "a", "l", "i", "d", " ", "U", "R", "L", " ", "f", "o", "r", "m",
   "a", "t", "I", "n", "v", "a", "l", "i", "d", " ", "f", "o", "r", "m", "a",
   "t", " ", "s", "p", "e", "c", "i", "f", "i", "c", "a", "t", "i", "o", "n",
   "I", "n", "v", "a", "l", "i", "d", " ", "l", "o", "c", "a", "l", "e", " ",
   "f", "o", "r", "m", "a", "t", "I", "n", "v", "a", "l", "i", "d", " ", "p",
   "a", "r", "t", " ", "n", "u", "m", "b", "e", "r", "I", "n", "v", "a", "l",
   "i", "d", " ", "p", "a", "r", "t", " ", "n", "u", "m", "b", "e", "r", " ",
   "f", "o", "r", "m", "a", "t", "I", "n", "v", "a", "l", "i", "d", " ", "s",
   "u", "b", "t", "i", "t", "l", "e", " ", "e", "x", "t", "e", "n", "s", "i",
   "o", "n", "I", "n", "v", "a", "l", "i", "d", " ", "s", "u", "b", "t", "i",
   "t", "l", "e", " ", "t", "y", "p", "e", "I", "n", "v", "a", "l", "i", "d",
   " ", "v", "i", "d", "e", "o", " ", "I", "D", " ", "f", "o", "r", "m", "a",
   "t", "L", "a", "n", "g", "u", "a", "g", "e", "L", "a", "n", "g", "u", "a",
   "g", "e", " ", "L", "a", "n", "g", "u", "a", "g", "e", " ", "N", "a", "m",
   "e", " ", "F", "o", "r", "m", "a", "t", "s", "L", "o", "w", "M", "i", "s",
   "s", "i", "n", "g", " ", "r", "e", "q", "u", "i", "r", "e", "d", " ", "p",
   "a", "r", "a", "m", "e", "t", "e", "r", "s", "N", "e", "v", "e", "r", " ",
   "G", "o", "n", "n", "a", " ", "G", "i", "v", "e", " ", "Y", "o", "u", " ",
   "U", "p", "P", "r", "e", "m", "i", "u", "m", "S", "D", "U", "R", "L", " ",
   "p", "a", "r", "a", "m", "e", "t", "e", "r", " ", "i", "s", " ", "r", "e",
   "q", "u", "i", "r", "e", "d", "U", "n", "e", "x", "p", "e", "c", "t", "e",
   "d", " ", "t", "o", "k", "e", "n", " ", "i", "n", " ", "J", "S", "O", "N",
   "U", "n", "k", "n", "o", "w", "n", "U", "n", "k", "n", "o", "w", "n", " ",
   "c", "a", "u", "s", "e", "U", "n", "k", "n", "o", "w", "n", " ", "d", "e",
   "s", "t", "V", "i", "d", "e", "o", " ", "I", "D", " ", "a", "n", "d", " ",
   "f", "o", "r", "m", "a", "t", " ", "a", "r", "e", " ", "r", "e", "q", "u",
   "i", "r", "e", "d", "W", "A", "R", "N", "I", "N", "G", ":", " ", "g", "o",
   "t", " ", "E", "R", "R", "O", "R", " ", "4", "0", "3", ",", " ", "E", "R",
   "R", "O", "R", ":", " ", "g", "i", "v", "i", "n", "g", " ", "u", "p", "W",
   "A", "R", "N", "I", "N", "G", ":", " ", "r", "e", "t", "r", "y", "i", "n",
   "g", "W", "A", "R", "N", "I", "N", "G", ":", " ", "u", "n", "a", "b", "l",
   "e", " ", "t", "o", " ", "e", "x", "t", "r", "a", "c", "t", "[", "d", "o",
   "w", "n", "l", "o", "a", "d", "]", " ", "1", "0", "0", "%", " ", "o", "f",
   " ", "1", ".", "0", "0", "M", "i", "B", "[", "d", "o", "w", "n", "l", "o",
   "a", "d", "]", " ", "D", "e", "s", "t", "i", "n", "a", "t", "i", "o", "n",
   ":", " ", "[", "i", "n", "f", "o", "]", " ", "A", "v", "a", "i", "l", "a",
   "b", "l", "e", " ", "a", "u", "t", "o", "m", "a", "t", "i", "c", " ", "c",
   "a", "p", "t", "i", "o", "n", "s", " ", "f", "o", "r", " ", "d", "Q", "w",
   "4", "w", "9", "W", "g", "X", "c", "Q", ":", "[", "i", "n", "f", "o", "]",
   " ", "A", "v", "a", "i", "l", "a", "b", "l", "e", " ", "s", "u", "b", "t",
   "i", "t", "l", "e", "s", " ", "f", "o", "r", " ", "d", "Q", "w", "4", "w",
   "9", "W", "g", "X", "c", "Q", ":", "[", "i", "n", "f", "o", "]", " ", "W",
   "r", "i", "t", "i", "n", "g", " ", "v", "i", "d", "e", "o", " ", "m", "e",
   "t", "a", "d", "a", "t", "a", " ", "a", "s", " ", "J", "S", "O", "N", "[",
   "i", "n", "f", "o", "]", " ", "d", "o", "n", "e", "_", "m", "e", "r", "g",
   "e", "d", "_", "p", "a", "b", "c", "d", "e", "f", "g", "h", "i", "j", "k",
   "l", "m", "n", "o", "p", "q", "r", "s", "t", "u", "v", "w", "x", "y", "z",
   "a", "f", " ", "A", "f", "r", "i", "k", "a", "a", "n", "s", " ", "v", "t",
   "t", ",", " ", "t", "t", "m", "l", "a", "u", "t", "o", "b", "i", "l", "i",
   "b", "i", "l", "i", ".", "c", "o", "m", "b", "i", "l", "i", "b", "i", "l",
   "i", ".", "c", "o", "m", "/", "v", "i", "d", "e", "o", "/", "c", "o", "n",
   "v", "e", "r", "t", "e", "d", " ", "t", "o", " ", "d", "Q", "w", "4", "w",
   "9", "W", "g", "X", "c", "!", "d", "Q", "w", "4", "w", "9", "W", "g", "X",
   "c", "Q", "d", "Q", "w", "4", "w", "9", "W", "g", "X", "c", "Q", " ", "h",
   "a", "s", " ", "n", "o", " ", "a", "u", "t", "o", "m", "a", "t", "i", "c",
   " ", "c", "a", "p", "t", "i", "o", "n", "s", "d", "Q", "w", "4", "w", "9",
   "W", "g", "X", "c", "Q", " ", "h", "a", "s", " ", "n", "o", " ", "s", "u",
   "b", "t", "i", "t", "l", "e", "s", "d", "a", "n", "m", "a", "k", "u", "d",
   "a", "n", "m", "a", "k", "u", " ", "x", "m", "l", "d", "f", " ", "-", "h",
   " ", ".", "e", "e", "n", "e", "n", " ", "E", "n", "g", "l", "i", "s", "h",
   " ", "v", "t", "t", "e", "n", " ", "E", "n", "g", "l", "i", "s", "h", " ",
   "v", "t", "t", ",", " ", "t", "t", "m", "l", "e", "n", "-", "U", "e", "n",
   "-", "U", "S", "U", "S", "A", "e", "s", "-", "4", "1", "9", " ", "S", "p",
   "a", "n", "i", "s", "h", " ", "(", "L", "a", "t", "i", "n", " ", "A", "m",
   "e", "r", "i", "c", "a", ")", " ", "v", "t", "t", "f", "f", "m", "p", "e",
   "g", " ", "-", "i", " ", "'", "f", "i", "l", "e", "s", "/", "f", "u", "l",
   "l", " ", "h", "d", "h", "d", "h", "e", "l", "l", "o", "h", "t", "t", "p",
   ":", "/", "/", "h", "t", "t", "p", "s", ":", "/", "/", "h", "t", "t", "p",
   "s", ":", "/", "/", "m", ".", "b", "i", "l", "i", "b", "i", "l", "i", ".",
   "c", "o", "m", "/", "v", "i", "d", "e", "o", "/", "B", "V", "1", "E", "R",
   "R", "O", "R", "1", "7", "m", "D", "?", "s", "p", "m", "=", "1", "&", "p",
   "=", "3", "h", "t", "t", "p", "s", ":", "/", "/", "m", ".", "y", "o", "u",
   "t", "u", "b", "e", ".", "c", "o", "m", "/", "w", "a", "t", "c", "h", "?",
   "v", "=", "d", "Q", "w", "4", "w", "9", "W", "g", "X", "c", "Q", "h", "t",
   "t", "p", "s", ":", "/", "/", "v", "i", "m", "e", "o", ".", "c", "o", "m",
   "/", "1", "2", "3", "4", "5", "6", "7", "8", "9", "0", "1", "h", "t", "t",
   "p", "s", ":", "/", "/", "w", "w", "w", ".", "b", "i", "l", "i", "b", "i",
   "l", "i", ".", "c", "o", "m", "/", "b", "a", "n", "g", "u", "m", "i", "/",
   "p", "l", "a", "y", "/", "e", "p", "1", "2", "3", "4", "5", "6", "7", "8",
   "9", "h", "t", "t", "p", "s", ":", "/", "/", "w", "w", "w", ".", "b", "i",
   "l", "i", "b", "i", "l", "i", ".", "c", "o", "m", "/", "v", "i", "d", "e",
   "o", "/", "h", "t", "t", "p", "s", ":", "/", "/", "w", "w", "w", ".", "b",
   "i", "l", "i", "b", "i", "l", "i", ".", "c", "o", "m", "/", "v", "i", "d",
   "e", "o", "/", "B", "V", "1", "E", "R", "R", "O", "R", "1", "7", "m", "D",
   "h", "t", "t", "p", "s", ":", "/", "/", "w", "w", "w", ".", "b", "i", "l",
   "i", "b", "i", "l", "i", ".", "c", "o", "m", "/", "v", "i", "d", "e", "o",
   "/", "B", "V", "1", "E", "R", "R", "O", "R", "1", "7", "m", "D", "/", "?",
   "s", "p", "m", "=", "1", "h", "t", "t", "p", "s", ":", "/", "/", "w", "w",
   "w", ".", "b", "i", "l", "i", "b", "i", "l", "i", ".", "c", "o", "m", "/",
   "v", "i", "d", "e", "o", "/", "B", "V", "1", "E", "R", "R", "O", "R", "1",
   "7", "m", "D", "?", "p", "=", "1", "h", "t", "t", "p", "s", ":", "/", "/",
   "w", "w", "w", ".", "b", "i", "l", "i", "b", "i", "l", "i", ".", "c", "o",
   "m", "/", "v", "i", "d", "e", "o", "/", "B", "V", "1", "E", "R", "R", "O",
   "R", "1", "7", "m", "D", "?", "p", "=", "2", "h", "t", "t", "p", "s", ":",
   "/", "/", "w", "w", "w", ".", "b", "i", "l", "i", "b", "i", "l", "i", ".",
   "c", "o", "m", "/", "v", "i", "d", "e", "o", "/", "s", "h", "o", "r", "t",
   "h", "t", "t", "p", "s", ":", "/", "/", "w", "w", "w", ".", "y", "o", "u",
   "t", "u", "b", "e", ".", "c", "o", "m", "/", "e", "m", "b", "e", "d", "/",
   "d", "Q", "w", "4", "w", "9", "W", "g", "X", "c", "Q", "h", "t", "t", "p",
   "s", ":", "/", "/", "w", "w", "w", ".", "y", "o", "u", "t", "u", "b", "e",
   ".", "c", "o", "m", "/", "e", "m", "b", "e", "d", "/", "d", "Q", "w", "4",
   "w", "9", "W", "g", "X", "c", "Q", "?", "s", "t", "a", "r", "t", "=", "5",
   "h", "t", "t", "p", "s", ":", "/", "/", "w", "w", "w", ".", "y", "o", "u",
   "t", "u", "b", "e", ".", "c", "o", "m", "/", "p", "l", "a", "y", "l", "i",
   "s", "t", "?", "l", "i", "s", "t", "=", "P", "L", "1", "2", "3", "4", "5",
   "6", "7", "8", "9", "h", "t", "t", "p", "s", ":", "/", "/", "w", "w", "w",
   ".", "y", "o", "u", "t", "u", "b", "e", ".", "c", "o", "m", "/", "s", "h",
   "o", "r", "t", "s", "/", "d", "Q", "w", "4", "w", "9", "W", "g", "X", "c",
   "Q", "h", "t", "t", "p", "s", ":", "/", "/", "w", "w", "w", ".", "y", "o",
   "u", "t", "u", "b", "e", ".", "c", "o", "m", "/", "s", "h", "o", "r", "t",
   "s", "/", "d", "Q", "w", "4", "w", "9", "W", "g", "X", "c", "Q", "?", "f",
   "e", "a", "t", "u", "r", "e", "=", "s", "h", "a", "r", "e", "h", "t", "t",
   "p", "s", ":", "/", "/", "w", "w", "w", ".", "y", "o", "u", "t", "u", "b",
   "e", ".", "c", "o", "m", "/", "w", "a", "t", "c", "h", "?", "f", "e", "a",
   "t", "u", "r", "e", "=", "s", "h", "a", "r", "e", "&", "v", "=", "d", "Q",
   "w", "4", "w", "9", "W", "g", "X", "c", "Q", "h", "t", "t", "p", "s", ":",
   "/", "/", "w", "w", "w", ".", "y", "o", "u", "t", "u", "b", "e", ".", "c",
   "o", "m", "/", "w", "a", "t", "c", "h", "?", "l", "i", "s", "t", "=", "P",
   "L", "1", "&", "v", "=", "d", "Q", "w", "4", "w", "9", "W", "g", "X", "c",
   "Q", "&", "t", "=", "4", "2", "h", "t", "t", "p", "s", ":", "/", "/", "w",
   "w", "w", ".", "y", "o", "u", "t", "u", "b", "e", ".", "c", "o", "m", "/",
   "w", "a", "t", "c", "h", "?", "v", "=", "h", "t", "t", "p", "s", ":", "/",
   "/", "w", "w", "w", ".", "y", "o", "u", "t", "u", "b", "e", ".", "c", "o",
   "m", "/", "w", "a", "t", "c", "h", "?", "v", "=", "d", "Q", "w", "4", "w",
   "9", "W", "g", "X", "c", "Q", "h", "t", "t", "p", "s", ":", "/", "/", "w",
   "w", "w", ".", "y", "o", "u", "t", "u", "b", "e", ".", "c", "o", "m", "/",
   "w", "a", "t", "c", "h", "?", "v", "=", "d", "Q", "w", "4", "w", "9", "W",
   "g", "X", "c", "Q", "&", "t", "=", "4", "2", "h", "t", "t", "p", "s", ":",
   "/", "/", "y", "o", "u", "t", "u", ".", "b", "e", "/", "d", "Q", "w", "4",
   "w", "9", "W", "g", "X", "c", "Q", "h", "t", "t", "p", "s", ":", "/", "/",
   "y", "o", "u", "t", "u", ".", "b", "e", "/", "d", "Q", "w", "4", "w", "9",
   "W", "g", "X", "c", "Q", "?", "t", "=", "4", "2", "h", "t", "t", "p", "s",
   ":", "/", "/", "y", "o", "u", "t", "u", "b", "e", ".", "c", "o", "m", "/",
   "e", "m", "b", "e", "d", "/", "d", "Q", "w", "4", "w", "9", "W", "g", "X",
   "c", "Q", "i", "n", "f", "o", "/", "j", "s", "o", "n", "m", "m", ".", "m",
   "a", "n", "u", "a", "l", "m", "p", "4", "n", "a", "t", "i", "v", "e", "p",
   "p", "=", "p", "=", "1", "p", "a", "r", "s", "e", " ", "f", "a", "i", "l",
   "e", "d", ":", " ", "s", "h", "o", "r", "t", "s", "h", "o", "r", "t", "s",
   "s", "p", "a", "w", "n", "S", "y", "n", "c", " ", "/", "b", "i", "n", "/",
   "s", "h", " ", "E", "T", "I", "M", "E", "D", "O", "U", "T", "s", "r", "t",
   "s", "t", "o", "r", "y", "b", "o", "a", "r", "d", "u", "n", "k", "n", "o",
   "w", "n", "u", "n", "s", "u", "p", "p", "o", "r", "t", "e", "d", " ", "U",
   "R", "L", ":", " ", "p", "r", "o", "v", "i", "d", "e", " ", "a", " ", "Y",
   "o", "u", "T", "u", "b", "e", " ", "o", "r", " ", "B", "i", "l", "i", "b",
   "i", "l", "i", " ", "v", "i", "d", "e", "o", " ", "U", "R", "L", "v", "=",
   "v", "t", "t", "w", "a", "t", "c", "h", "w", "e", "b", "m", "w", "o", "r",
   "l", "d", "w", "w", "w", "w", "w", "w", ".", "x", "x", "1", "x", "m", "l",
   "y", "o", "u", "t", "u", ".", "b", "e", "y", "o", "u", "t", "u", ".", "b",
   "e", "/", "y", "o", "u", "t", "u", "b", "e", ".", "c", "o", "m", "y", "o",
   "u", "t", "u", "b", "e", ".", "c", "o", "m", "/", "e", "m", "b", "e", "d",
   "/", "y", "o", "u", "t", "u", "b", "e", ".", "c", "o", "m", "/", "v", "/",
   "y", "o", "u", "t", "u", "b", "e", ".", "c", "o", "m", "/", "w", "a", "t",
   "c", "h", "?", "y", "t", "-", "d", "l", "p", " ", "y", "t", "-", "d", "l",
   "p", " ", "-", "-", "l", "i", "s", "t", "-", "s", "u", "b", "s", " ", "y",
   "t", "-", "d", "l", "p", " ", "-", "-", "p", "r", "i", "n", "t", "-", "j",
   "s", "o", "n", " ", "-", "-", "s", "k", "i", "p", "-", "d", "o", "w", "n",
   "l", "o", "a", "d", " ", "y", "t", "-", "d", "l", "p", " ", "-", "-", "s",
   "u", "b", "-", "l", "a", "n", "g", " ", "'", "z", "h", "-", "H", "a", "n",
   "s", "z", "h", "-", "H", "a", "n", "s", " ", "C", "h", "i", "n", "e", "s",
   "e", " ", "(", "S", "i", "m", "p", "l", "i", "f", "i", "e", "d", ")", " ",
   "v", "t", "t"
  >>
CharsTable ==
  [s \in {Literals[i] : i \in 1..Len(Literals)} |->
     LET i == CHOOSE k \in 1..Len(Literals) : Literals[k] = s
     IN SubSeq(Letters, Starts[i], Starts[i + 1] - 1)]
Chars(s) == CharsTable[s]
\* END string literals

----------------------------------------------------------------------------
(* Character classes of the regular expressions                            *)

Lower == {"a","b","c","d","e","f","g","h","i","j","k","l","m",
          "n","o","p","q","r","s","t","u","v","w","x","y","z"}
Upper == {"A","B","C","D","E","F","G","H","I","J","K","L","M",
          "N","O","P","Q","R","S","T","U","V","W","X","Y","Z"}
Digit == {"0","1","2","3","4","5","6","7","8","9"}
Alpha == Lower \cup Upper
\* \w
Word == Alpha \cup Digit \cup {"_"}
\* [\w-]
WordDash == Word \cup {"-"}

AllIn(s, C) == \A i \in 1..Len(s) : s[i] \in C

\* s.includes(sub)
Includes(s, sub) ==
  \E i \in 1..(Len(s) - Len(sub) + 1) : SubSeq(s, i, i + Len(sub) - 1) = sub

\* s starts with sub at index i
StartsAt(s, i, sub) ==
  /\ i + Len(sub) - 1 <= Len(s)
  /\ SubSeq(s, i, i + Len(sub) - 1) = sub

\* the end of the longest run of characters of C that starts at i (i - 1
\* when line[i] is not in C)
RECURSIVE RunEnd(_, _, _)
RunEnd(line, i, C) ==
  IF i <= Len(line) /\ line[i] \in C THEN RunEnd(line, i + 1, C) ELSE i - 1

\* index of the first occurrence of the character c in s, 0 if none
IndexOf(s, c) ==
  IF \E i \in 1..Len(s) : s[i] = c
  THEN CHOOSE i \in 1..Len(s) : s[i] = c /\ \A j \in 1..(i - 1) : s[j] # c
  ELSE 0

\* s.replace(c, d) with a string pattern: the first occurrence only
ReplaceFirst(s, c, d) ==
  IF IndexOf(s, c) = 0 THEN s
  ELSE [i \in 1..Len(s) |-> IF i = IndexOf(s, c) THEN d ELSE s[i]]

----------------------------------------------------------------------------
(* Configuration                                                            *)

\* config.tmpDir
tmpDir == Chars("/app/tmp")
\* config.maxAge, milliseconds: 24 * 60 * 60 * 1000
maxAge == 86400000
\* config.maxDiskUsage, percent
maxDiskUsage == 90

----------------------------------------------------------------------------
(* Input validation                                                         *)

\* /^[\w-]{11,14}$/
ValidVideoID(id) == Len(id) >= 11 /\ Len(id) <= 14 /\ AllIn(id, WordDash)

\* /^[\d]+$/
ValidPart(p) == Len(p) >= 1 /\ AllIn(p, Digit)

\* a format test without the character class
ValidFormatAnyChars(f) == Len(f) >= 1

\* /^([\w\d-]+)(?:x([\w\d-]+))?$/
ValidFormat(f) ==
  \/ Len(f) >= 1 /\ AllIn(f, WordDash)
  \/ \E i \in 2..(Len(f) - 1) :
       /\ f[i] = "x"
       /\ AllIn(SubSeq(f, 1, i - 1), WordDash)
       /\ AllIn(SubSeq(f, i + 1, Len(f)), WordDash)

----------------------------------------------------------------------------
(* The temporary-storage tree.  A path is the sequence of its components   *)
(* below config.tmpDir; <<>> is the root itself.  fs maps every existing   *)
(* path to its node.  The root's own modification time is never read by    *)
(* the program and is kept at 0.                                           *)

Root == <<>>
Parent(p) == SubSeq(p, 1, Len(p) - 1)
IsPrefix(a, b) == Len(a) <= Len(b) /\ SubSeq(b, 1, Len(a)) = a
Prefixes(p) == {SubSeq(p, 1, n) : n \in 0..Len(p)}
\* the content of a file: what it is, its container, its text
Content(type, ext, body) == [type |-> type, ext |-> ext, body |-> body]
DirNode(t) == [kind |-> "dir", mtime |-> t, data |-> Content("dir", <<>>, <<>>)]
FileNode(t, d) == [kind |-> "file", mtime |-> t, data |-> d]
Exists(f, p) == p \in DOMAIN f
Children(f, p) == {q \in DOMAIN f : Len(q) = Len(p) + 1 /\ IsPrefix(p, q)}
Touch(n, p, t) == IF p = Root THEN n ELSE [n EXCEPT !.mtime = t]

\* mkdirSync(path, { recursive: true }) at time t: creates the missing
\* ancestors; a directory that gains an entry gets mtime t
MkdirP(f, p, t) ==
  LET missing == {q \in Prefixes(p) : q \notin DOMAIN f}
      gained == {Parent(q) : q \in missing \ {Root}} \cap DOMAIN f
  IN [q \in DOMAIN f \cup missing |->
        IF q \in missing THEN Touch(DirNode(0), q, t)
        ELSE IF q \in gained THEN Touch(f[q], q, t)
        ELSE f[q]]

\* a write that first empties the directory it writes into
WriteFileAlone(f, p, t, d) ==
  [q \in {r \in DOMAIN f : r = Parent(p) \/ ~IsPrefix(Parent(p), r)} \cup {p} |->
     IF q = p THEN FileNode(t, d)
     ELSE IF q = Parent(p) THEN Touch(f[q], q, t)
     ELSE f[q]]

\* a tool writes the file p with content d at time t (the directory exists)
WriteFile(f, p, t, d) ==
  [q \in DOMAIN f \cup {p} |->
     IF q = p THEN FileNode(t, d)
     ELSE IF q = Parent(p) THEN Touch(f[q], q, t)
     ELSE f[q]]

\* rmSync(path, { recursive: true, force: true })
RmRecursive(f, p) ==
  [q \in {r \in DOMAIN f : ~IsPrefix(p, r)} |-> f[q]]

\* join(config.tmpDir, ...components)
RECURSIVE JoinPath(_)
JoinPath(p) ==
  IF p = <<>> THEN tmpDir
  ELSE JoinPath(Parent(p)) \o Chars("/") \o p[Len(p)]

\* `${a}/${b}/...` for a relative path
RECURSIVE RelPath(_)
RelPath(p) ==
  IF Len(p) = 1 THEN p[1]
  ELSE RelPath(Parent(p)) \o Chars("/") \o p[Len(p)]

----------------------------------------------------------------------------
(* Calls a handler makes, in order (observation of one request)            *)

EvMkdir(p) == [call |-> "mkdir", path |-> p]
\* output: the lines of stdout of a run that succeeded, of stderr otherwise
EvExec(tool, cmd, status, output) ==
  [call |-> "exec", tool |-> tool, cmd |-> cmd, status |-> status,
   output |-> output]
EvScan == [call |-> "scan-output"]
EvReaddir(p) == [call |-> "readdir", path |-> p]
Spawned(evs) == {i \in 1..Len(evs) : evs[i].call = "exec"}
Runs(evs, tool) == {i \in Spawned(evs) : evs[i].tool = tool}

\* error.toString() of a failed execSync: "Error: Command failed: <cmd>\n"
\* followed by the tool's stderr; of a timed-out one, the spawn error
ExecErrorLines(cmd, out) ==
  IF out.status = "timeout"
  THEN <<Chars("Error: spawnSync /bin/sh ETIMEDOUT")>>
  ELSE <<Chars("Error: Command failed: ") \o cmd>> \o out.stderr

ErrorLines(msg) == <<Chars("Error: ") \o msg>>

----------------------------------------------------------------------------
(* Video Downloader                                                         *)

\* absent (undefined) and empty strings are both falsy
Absent == <<>>
Truthy(s) == s # <<>>

getWebsiteUrl(website, videoID, p) ==
  CASE website = "y2b" ->
         Chars("https://www.youtube.com/watch?v=") \o videoID
    [] website = "bilibili" ->
         Chars("https://www.bilibili.com/video/") \o videoID
           \o (IF Truthy(p) THEN Chars("?p=") \o p ELSE <<>>)
    [] OTHER ->
         Chars("https://www.youtube.com/watch?v=") \o videoID

\* an output path that leaves the part number out
DownloadPathNoPart(videoID, p, format) == <<videoID, format>>
\* `${videoID}${p ? `/p${p}` : ''}/${format}` below config.tmpDir
DownloadPath(videoID, p, format) ==
  <<videoID>> \o (IF Truthy(p) THEN <<Chars("p") \o p>> ELSE <<>>) \o <<format>>

\* a merge decided by the format spec alone
MergeOutputAlways(format, merge) == Includes(format, Chars("x"))
\* mergeOutput
MergeOutput(format, merge) == merge /\ Includes(format, Chars("x"))

\* formatParam
FormatParam(format) ==
  IF Includes(format, Chars("x")) THEN ReplaceFirst(format, "x", "+") ELSE format

\* the part of outputTemplate before ".%(ext)s", inside the output directory
TemplateBase(videoID, format, merge) ==
  IF MergeOutput(format, merge) THEN videoID \o Chars("_merged") ELSE videoID

CookieParam(cookie) ==
  IF cookie THEN Chars("--cookies /app/server/cookies.txt") ELSE <<>>

DownloadCommand(website, videoID, p, format, recode, merge, cookie) ==
  LET fullpath == JoinPath(DownloadPath(videoID, p, format))
      base == Chars("yt-dlp ") \o CookieParam(cookie) \o Chars(" ")
                \o getWebsiteUrl(website, videoID, p)
                \o Chars(" -f ") \o FormatParam(format)
                \o Chars(" -o '") \o fullpath \o Chars("/")
                \o TemplateBase(videoID, format, merge) \o Chars(".%(ext)s' ")
                \o (IF Truthy(recode) THEN Chars("--recode ") \o recode ELSE <<>>)
                \o Chars(" -k --write-info-json")
  IN IF MergeOutput(format, merge)
     THEN base \o Chars(" --merge-output-format mp4")
     ELSE base

\* positions where `${fullpath}/(${videoID}\.[\w]+)` matches in a line
DestMatches(line, fullpath, videoID) ==
  LET pat == fullpath \o Chars("/") \o videoID \o Chars(".")
  IN {i \in 1..Len(line) :
        /\ StartsAt(line, i, pat)
        /\ i + Len(pat) <= Len(line)
        /\ line[i + Len(pat)] \in Word}

\* match[1] of /^.*<fullpath>/(<videoID>\.[\w]+).*$/: the leading .* is
\* greedy, so the last match position; then the longest run of \w
DestCapture(line, fullpath, videoID) ==
  LET ms == DestMatches(line, fullpath, videoID)
      i == CHOOSE k \in ms : \A j \in ms : j <= k
      from == i + Len(fullpath) + 1
      first == from + Len(videoID) + 1
      last == CHOOSE e \in first..Len(line) :
                /\ \A j \in first..e : line[j] \in Word
                /\ (e = Len(line) \/ line[e + 1] \notin Word)
  IN SubSeq(line, from, last)

\* the loop over output.split('\n')
RECURSIVE DestOf(_, _, _)
DestOf(lines, fullpath, videoID) ==
  IF lines = <<>> THEN Chars("Unknown dest")
  ELSE IF DestMatches(lines[1], fullpath, videoID) # {}
       THEN DestCapture(lines[1], fullpath, videoID)
       ELSE DestOf(Tail(lines), fullpath, videoID)

\* positions of "ERROR" in a line
ErrorMarks(line) == {i \in 1..Len(line) : StartsAt(line, i, Chars("ERROR"))}

\* match[1] of /^.*(ERROR.*)$/: from the last "ERROR" to the end of the line
ErrorCapture(line) ==
  LET i == CHOOSE k \in ErrorMarks(line) : \A j \in ErrorMarks(line) : j <= k
  IN SubSeq(line, i, Len(line))

\* a scan that keeps the last matching line instead of the first
CauseOfLast(lines) ==
  LET hits == {i \in 1..Len(lines) : ErrorMarks(lines[i]) # {}}
  IN IF hits = {} THEN Chars("Unknown cause")
     ELSE ErrorCapture(lines[CHOOSE i \in hits : \A j \in hits : j <= i])
\* the loop over error.toString().split('\n'), left at the first match
CauseOf(lines) ==
  LET hits == {i \in 1..Len(lines) : ErrorMarks(lines[i]) # {}}
  IN IF hits = {} THEN Chars("Unknown cause")
     ELSE ErrorCapture(lines[CHOOSE i \in hits : \A j \in hits : i <= j])

\* dest of a failed download: the literal failure marker of the source
FailureMarker == Chars("<download failed>")

DownloadFailure(videoID, errLines) ==
  [success |-> TRUE,
   result |-> [v |-> videoID, downloading |-> FALSE, downloadSucceed |-> FALSE,
               dest |-> FailureMarker, metadata |-> CauseOf(errLines)]]

\* message of the first validation that rejects the arguments, <<>> if none
DownloadInvalid(videoID, p, format) ==
  IF ~Truthy(videoID) \/ ~Truthy(format)
    THEN Chars("Video ID and format are required")
  ELSE IF ~ValidVideoID(videoID) THEN Chars("Invalid video ID format")
  ELSE IF Truthy(p) /\ ~ValidPart(p) THEN Chars("Invalid part number format")
  ELSE IF ~ValidFormat(format) THEN Chars("Invalid format specification")
  ELSE <<>>

\* calls in which the tool is run before the directory is made and the
\* output is scanned whatever the run did
DownloadCallsToolFirst(path, cmd, out) ==
  <<EvExec("yt-dlp", cmd, out.status,
           IF out.status = "ok" THEN out.stdout ELSE out.stderr),
    EvMkdir(path), EvScan>>
\* the calls of a downloadVideo that passed validation: mkdirSync, execSync
\* and, when execSync returned, the loop over the lines of the output
DownloadCalls(path, cmd, out) ==
  IF out.status # "ok"
  THEN <<EvMkdir(path), EvExec("yt-dlp", cmd, out.status, out.stderr)>>
  ELSE <<EvMkdir(path), EvExec("yt-dlp", cmd, "ok", out.stdout), EvScan>>

\* downloadVideo: the value returned, the tree afterwards, the calls made.
\* out is what the extraction tool does when it is run.
downloadVideo(f, t, website, videoID, p, format, recode, merge, cookie, out) ==
  LET path == DownloadPath(videoID, p, format)
      fullpath == JoinPath(path)
      cmd == DownloadCommand(website, videoID, p, format, recode, merge, cookie)
      made == MkdirP(f, path, t)
      base == TemplateBase(videoID, format, merge)
      media == path \o <<base \o Chars(".") \o out.ext>>
      info == path \o <<base \o Chars(".info.json")>>
      written == WriteFile(WriteFile(made, info, t,
                                     Content("info", Chars("json"), out.title)),
                           media, t, Content("media", out.ext, <<>>))
  IN IF DownloadInvalid(videoID, p, format) # <<>>
     THEN [ret |-> DownloadFailure(videoID,
                     ErrorLines(DownloadInvalid(videoID, p, format))),
           fs |-> f, events |-> <<>>]
     ELSE IF out.status # "ok"
     THEN [ret |-> DownloadFailure(videoID, ExecErrorLines(cmd, out)),
           fs |-> made,
           events |-> DownloadCalls(path, cmd, out)]
     ELSE [ret |->
             [success |-> TRUE,
              result |-> [v |-> videoID, downloading |-> FALSE,
                          downloadSucceed |-> TRUE,
                          dest |-> Chars("files/") \o RelPath(path) \o Chars("/")
                                     \o DestOf(out.stdout, fullpath, videoID),
                          metadata |-> Chars("info/") \o RelPath(path)
                                     \o Chars("/") \o videoID
                                     \o Chars(".info.json")]],
           fs |-> written,
           events |-> DownloadCalls(path, cmd, out)]

\* what the extraction tool may do for one download: finish and name the
\* produced file in its output, finish without naming it, exit non-zero
\* with some error output, or run into the timeout
StderrTexts ==
  {<<>>,
   <<Chars("WARNING: unable to extract"), Chars("ERROR: Video unavailable")>>,
   <<Chars("ERROR: first"), Chars("ERROR: second")>>,
   <<Chars("WARNING: got ERROR 403, ERROR: giving up")>>,
   <<Chars("WARNING: retrying")>>}

VideoTitle == Chars("Never Gonna Give You Up")
ToolOk(ext, stdout) ==
  [status |-> "ok", ext |-> ext, title |-> VideoTitle, stdout |-> stdout,
   stderr |-> <<>>]
ToolFail(stderr) ==
  [status |-> "fail", ext |-> <<>>, title |-> <<>>, stdout |-> <<>>,
   stderr |-> stderr]
ToolTimeout ==
  [status |-> "timeout", ext |-> <<>>, title |-> <<>>, stdout |-> <<>>,
   stderr |-> <<>>]

DownloadOutcomes(videoID, p, format, merge) ==
  LET produced(ext) == JoinPath(DownloadPath(videoID, p, format)) \o Chars("/")
                         \o TemplateBase(videoID, format, merge)
                         \o Chars(".") \o ext
  IN {ToolOk(ext, <<Chars("[info] Writing video metadata as JSON"),
                    Chars("[download] Destination: ") \o produced(ext),
                    Chars("[download] 100% of 1.00MiB")>>) :
        ext \in {Chars("mp4"), Chars("webm")}}
     \cup {ToolOk(Chars("mp4"), <<Chars("[download] 100% of 1.00MiB")>>)}
     \cup {ToolFail(e) : e \in StderrTexts}
     \cup {ToolTimeout}

\* path of getDownloadStatus, below config.tmpDir
StatusPath(videoID, p, format) ==
  <<videoID>> \o (IF Truthy(p) THEN <<Chars("p") \o p>> ELSE <<>>) \o <<format>>

\* a status that is found only when the output directory holds a file
getDownloadStatusPopulated(f, videoID, format, p) ==
  IF Children(f, StatusPath(videoID, p, format)) # {}
  THEN [success |-> TRUE,
        result |-> [v |-> videoID, downloading |-> FALSE,
                    downloadSucceed |-> TRUE,
                    dest |-> Chars("files/") \o RelPath(StatusPath(videoID, p, format)),
                    metadata |-> Chars("info/") \o RelPath(StatusPath(videoID, p, format))
                                   \o Chars("/") \o videoID \o Chars(".info.json")]]
  ELSE [success |-> FALSE, error |-> Chars("Download not found")]

\* getDownloadStatus
getDownloadStatus(f, videoID, format, p) ==
  IF Exists(f, StatusPath(videoID, p, format))
  THEN [success |-> TRUE,
        result |-> [v |-> videoID, downloading |-> FALSE,
                    downloadSucceed |-> TRUE,
                    dest |-> Chars("files/") \o RelPath(StatusPath(videoID, p, format)),
                    metadata |-> Chars("info/") \o RelPath(StatusPath(videoID, p, format))
                                   \o Chars("/") \o videoID \o Chars(".info.json")]]
  ELSE [success |-> FALSE, error |-> Chars("Download not found")]

----------------------------------------------------------------------------
(* Subtitle Downloader                                                      *)

\* /^\.(srt|ass|vtt|lrc|xml)$/
ValidExt(ext) ==
  ext \in {Chars(".srt"), Chars(".ass"), Chars(".vtt"), Chars(".lrc"),
           Chars(".xml")}

\* /^(auto|native)$/
ValidType(type) == type \in {Chars("auto"), Chars("native")}

\* a locale test without the character classes
ValidLocaleAnyChars(locale) ==
  \/ locale \in {Chars("auto"), Chars("danmaku")}
  \/ Len(locale) = 2
  \/ Len(locale) >= 3 /\ Len(locale) <= 7

\* /^([a-z]{2}(-[a-zA-Z]{2,4})?|auto|danmaku)$/
ValidLocale(locale) ==
  \/ locale \in {Chars("auto"), Chars("danmaku")}
  \/ Len(locale) = 2 /\ AllIn(locale, Lower)
  \/ /\ Len(locale) >= 5 /\ Len(locale) <= 7
     /\ AllIn(SubSeq(locale, 1, 2), Lower)
     /\ locale[3] = "-"
     /\ AllIn(SubSeq(locale, 4, Len(locale)), Alpha)

\* validateRequest for POST on a path containing "/subtitle"
SubtitleBodyInvalid(id, locale, ext, type) ==
  IF ~Truthy(id) \/ ~ValidVideoID(id) THEN Chars("Invalid video ID format")
  ELSE IF ~Truthy(ext) \/ ~ValidExt(ext) THEN Chars("Invalid subtitle extension")
  ELSE IF ~Truthy(type) \/ ~ValidType(type) THEN Chars("Invalid subtitle type")
  ELSE IF ~Truthy(locale) \/ ~ValidLocale(locale)
    THEN Chars("Invalid locale format")
  ELSE <<>>

\* message of the first validation of downloadSubtitle that rejects the
\* arguments, <<>> if none
SubtitleInvalid(id, p, locale, ext, type) ==
  IF ~Truthy(id) \/ ~Truthy(locale) \/ ~Truthy(ext) \/ ~Truthy(type)
    THEN Chars("Missing required parameters")
  ELSE IF ~ValidVideoID(id) THEN Chars("Invalid video ID format")
  ELSE IF ~ValidExt(ext) THEN Chars("Invalid subtitle extension")
  ELSE IF ~ValidType(type) THEN Chars("Invalid subtitle type")
  ELSE IF Truthy(p) /\ ~ValidPart(p) THEN Chars("Invalid part number")
  ELSE <<>>

\* `${id}${p ? `/p${p}` : ''}` below config.tmpDir
SubtitleDir(id, p) ==
  <<id>> \o (IF Truthy(p) THEN <<Chars("p") \o p>> ELSE <<>>)

\* the file-name part of `before`
Before(id, p) == id \o (IF Truthy(p) THEN Chars("_p") \o p ELSE <<>>)

\* originalExt
OriginalExt(website, locale) ==
  IF locale = Chars("danmaku") THEN Chars("xml")
  ELSE IF website = "y2b" THEN Chars("vtt") ELSE Chars("srt")

\* subtitleFile, convertedFile, infoFile
SubtitleFile(website, id, p, locale) ==
  SubtitleDir(id, p)
    \o <<Before(id, p) \o Chars(".") \o locale \o Chars(".")
           \o OriginalExt(website, locale)>>
ConvertedFile(id, p, locale, ext) ==
  SubtitleDir(id, p) \o <<Before(id, p) \o Chars(".") \o locale \o ext>>
InfoFile(id, p) == SubtitleDir(id, p) \o <<Before(id, p) \o Chars(".info.json")>>

\* a conversion test that ignores the native container
NeedsConversionAlways(website, id, p, locale, ext) == TRUE

\* subtitleFile !== convertedFile
NeedsConversion(website, id, p, locale, ext) ==
  JoinPath(SubtitleFile(website, id, p, locale))
    # JoinPath(ConvertedFile(id, p, locale, ext))

SubtitleCommand(website, id, p, locale, type, cookie) ==
  Chars("yt-dlp --sub-lang '") \o locale \o Chars("' -o '")
    \o JoinPath(SubtitleDir(id, p)) \o Chars("/%(id)s.%(ext)s' ")
    \o (IF type = Chars("native") THEN Chars("--write-sub")
        ELSE Chars("--write-auto-sub"))
    \o Chars(" --skip-download --write-info-json ")
    \o getWebsiteUrl(website, id, p) \o Chars(" ") \o CookieParam(cookie)

ConvertCommand(website, id, p, locale, ext) ==
  Chars("ffmpeg -i '") \o JoinPath(SubtitleFile(website, id, p, locale))
    \o Chars("' '") \o JoinPath(ConvertedFile(id, p, locale, ext))
    \o Chars("' -y")

\* Buffer.from(content).toString('base64')
Base64(body) == [base64 |-> body]

\* what ffmpeg writes for a subtitle text when it converts it to ext
Converted(body, ext) == Chars("converted to ") \o ext \o Chars(": ") \o body

SubtitleFailure(msg) == [success |-> FALSE, error |-> msg]
NoSuchFile == Chars("ENOENT: no such file or directory")

\* the tree after the extraction tool has run: it may have written the
\* subtitle in its native container, and the metadata sidecar
AfterExtraction(f, t, website, id, p, locale, out) ==
  LET withSub == IF out.sub = <<>> THEN f
                 ELSE WriteFile(f, SubtitleFile(website, id, p, locale), t,
                        Content("sub", OriginalExt(website, locale), out.sub))
  IN IF out.info = "none" THEN withSub
     ELSE WriteFile(withSub, InfoFile(id, p), t,
            Content(out.info, Chars("json"), out.title))

\* title: info.title || id, id when the sidecar cannot be read or parsed
TitleOf(f, id, p) ==
  IF Exists(f, InfoFile(id, p))
       /\ f[InfoFile(id, p)].data.type = "info"
       /\ Truthy(f[InfoFile(id, p)].data.body)
  THEN f[InfoFile(id, p)].data.body
  ELSE id

\* the end of downloadSubtitle, after the conversion step went through:
\* read the sidecar, read convertedFile
SubtitleResult(f, id, p, locale, ext) ==
  IF ~Exists(f, ConvertedFile(id, p, locale, ext))
  THEN SubtitleFailure(NoSuchFile)
  ELSE [success |-> TRUE,
        title |-> TitleOf(f, id, p),
        filename |-> TitleOf(f, id, p) \o Chars(".") \o locale \o ext,
        text |-> Base64(f[ConvertedFile(id, p, locale, ext)].data.body)]

\* a fallback that reports the failed conversion instead of recovering
SubtitleFallbackFails(f, website, id, p, locale) ==
  SubtitleFailure(Chars("Conversion failed"))

\* the catch branch of the conversion: return the original file
SubtitleFallback(f, website, id, p, locale) ==
  IF ~Exists(f, SubtitleFile(website, id, p, locale))
  THEN SubtitleFailure(NoSuchFile)
  ELSE [success |-> TRUE,
        title |-> id,
        filename |-> id \o Chars(".") \o locale \o OriginalExt(website, locale),
        text |-> Base64(f[SubtitleFile(website, id, p, locale)].data.body)]

\* calls in which the conversion is tried although the extraction failed
ExtractionFailedCallsConvert(dir, cmd, convertCmd, out) ==
  <<EvMkdir(dir), EvExec("yt-dlp", cmd, out.status, <<>>),
    EvExec("ffmpeg", convertCmd, "fail", <<>>)>>

\* the calls of a downloadSubtitle whose execSync(cmd) throws: the catch at
\* the end of the function is entered from there
ExtractionFailedCalls(dir, cmd, convertCmd, out) ==
  <<EvMkdir(dir), EvExec("yt-dlp", cmd, out.status, <<>>)>>

\* downloadSubtitle: the value returned, the tree afterwards, the calls made.
\* out is what the extraction tool does when it is run, conv whether the
\* transcoding tool succeeds when it is run.
downloadSubtitle(f, t, website, id, p, locale, ext, type, cookie, out, conv) ==
  LET dir == SubtitleDir(id, p)
      cmd == SubtitleCommand(website, id, p, locale, type, cookie)
      convertCmd == ConvertCommand(website, id, p, locale, ext)
      made == MkdirP(f, dir, t)
      got == AfterExtraction(made, t, website, id, p, locale, out)
      native == SubtitleFile(website, id, p, locale)
      converted == WriteFile(got, ConvertedFile(id, p, locale, ext), t,
                     Content("sub", Tail(ext),
                             Converted(got[native].data.body, ext)))
  IN IF SubtitleInvalid(id, p, locale, ext, type) # <<>>
     THEN [ret |-> SubtitleFailure(SubtitleInvalid(id, p, locale, ext, type)),
           fs |-> f, events |-> <<>>]
     ELSE IF out.status # "ok"
     THEN [ret |-> SubtitleFailure(
                     IF out.status = "timeout"
                     THEN Chars("spawnSync /bin/sh ETIMEDOUT")
                     ELSE Chars("Command failed: ") \o cmd),
           fs |-> made,
           events |-> ExtractionFailedCalls(dir, cmd, convertCmd, out)]
     ELSE IF ~NeedsConversion(website, id, p, locale, ext)
     THEN [ret |-> SubtitleResult(got, id, p, locale, ext),
           fs |-> got,
           events |-> <<EvMkdir(dir), EvExec("yt-dlp", cmd, "ok", <<>>)>>]
     ELSE IF conv /\ Exists(got, native)
     THEN [ret |-> SubtitleResult(converted, id, p, locale, ext),
           fs |-> converted,
           events |-> <<EvMkdir(dir), EvExec("yt-dlp", cmd, "ok", <<>>),
                        EvExec("ffmpeg", convertCmd, "ok", <<>>)>>]
     ELSE [ret |-> SubtitleFallback(got, website, id, p, locale),
           fs |-> got,
           events |-> <<EvMkdir(dir), EvExec("yt-dlp", cmd, "ok", <<>>),
                        EvExec("ffmpeg", convertCmd, "fail", <<>>)>>]

----------------------------------------------------------------------------
(* Metadata Extractor: the platform resolver of parseVideo                  *)

\* [a-zA-Z0-9_-]{11} at position i
Has11(url, i) == i + 10 <= Len(url) /\ AllIn(SubSeq(url, i, i + 10), WordDash)

\* positions after which /watch\?.*v=([a-zA-Z0-9_-]{11})/ can capture, the
\* literal "youtube.com/watch?" starting at i
WatchCaptures(url, i) ==
  LET from == i + Len(Chars("youtube.com/watch?"))
  IN {k \in from..Len(url) :
        StartsAt(url, k, Chars("v=")) /\ Has11(url, k + 2)}

\* where the capture group of the first pattern starts when the pattern
\* matches at position i, 0 when it does not match there
FirstPatternAt(url, i) ==
  IF StartsAt(url, i, Chars("youtube.com/watch?")) /\ WatchCaptures(url, i) # {}
    THEN (CHOOSE k \in WatchCaptures(url, i) :
            \A j \in WatchCaptures(url, i) : j <= k) + 2
  ELSE IF StartsAt(url, i, Chars("youtu.be/"))
            /\ Has11(url, i + Len(Chars("youtu.be/")))
    THEN i + Len(Chars("youtu.be/"))
  ELSE IF StartsAt(url, i, Chars("youtube.com/embed/"))
            /\ Has11(url, i + Len(Chars("youtube.com/embed/")))
    THEN i + Len(Chars("youtube.com/embed/"))
  ELSE IF StartsAt(url, i, Chars("youtube.com/v/"))
            /\ Has11(url, i + Len(Chars("youtube.com/v/")))
    THEN i + Len(Chars("youtube.com/v/"))
  ELSE 0

\* the same for /youtube\.com\/watch\?.*[&?]v=([a-zA-Z0-9_-]{11})/
SecondPatternAt(url, i) ==
  LET from == i + Len(Chars("youtube.com/watch?"))
      caps == {k \in from..Len(url) :
                 /\ url[k] \in {"&", "?"}
                 /\ StartsAt(url, k + 1, Chars("v="))
                 /\ Has11(url, k + 3)}
  IN IF StartsAt(url, i, Chars("youtube.com/watch?")) /\ caps # {}
     THEN (CHOOSE k \in caps : \A j \in caps : j <= k) + 3
     ELSE 0

\* match[1] of the first of the two patterns that matches, <<>> if none;
\* a pattern matches at the leftmost position where it can
YouTubeVideoID(url) ==
  LET m1 == {i \in 1..Len(url) : FirstPatternAt(url, i) # 0}
      m2 == {i \in 1..Len(url) : SecondPatternAt(url, i) # 0}
      at(m) == CHOOSE i \in m : \A j \in m : i <= j
  IN IF m1 # {}
       THEN SubSeq(url, FirstPatternAt(url, at(m1)), FirstPatternAt(url, at(m1)) + 10)
     ELSE IF m2 # {}
       THEN SubSeq(url, SecondPatternAt(url, at(m2)), SecondPatternAt(url, at(m2)) + 10)
     ELSE <<>>

\* the prefixes /^https?:\/\/(?:www\.|m\.)?bilibili\.com\/video\// allows
BilibiliPrefixes ==
  {s \o h \o Chars("bilibili.com/video/") :
     s \in {Chars("http://"), Chars("https://")},
     h \in {<<>>, Chars("www."), Chars("m.")}}

\* match[1] of bilibiliRegex
\* /^https?:\/\/(?:www\.|m\.)?bilibili\.com\/video\/([\w\d]{11,14})\/?(?:\?.*)?$/
\* <<>> when the url does not match
BilibiliVideoID(url) ==
  LET pres == {pre \in BilibiliPrefixes : StartsAt(url, 1, pre)}
      pre == CHOOSE x \in pres : TRUE
      first == Len(pre) + 1
      last == RunEnd(url, first, Word)
      rest == SubSeq(url, last + 1, Len(url))
  IN IF pres # {}
          /\ last - first + 1 >= 11 /\ last - first + 1 <= 14
          /\ (\/ rest = <<>>
              \/ rest = Chars("/")
              \/ rest[1] = "?"
              \/ Len(rest) >= 2 /\ rest[1] = "/" /\ rest[2] = "?")
     THEN SubSeq(url, first, last)
     ELSE <<>>

\* match[1] of /[?&]p=(\d+)/, <<>> when there is no match
PartOf(url) ==
  LET ms == {i \in 1..Len(url) :
               /\ url[i] \in {"?", "&"}
               /\ StartsAt(url, i + 1, Chars("p="))
               /\ RunEnd(url, i + 3, Digit) >= i + 3}
      i == CHOOSE k \in ms : \A j \in ms : k <= j
  IN IF ms = {} THEN <<>> ELSE SubSeq(url, i + 3, RunEnd(url, i + 3, Digit))

NoPlatform == [website |-> "none", videoID |-> <<>>, p |-> <<>>]

\* a resolver that takes a URL no pattern matches for a YouTube URL
ResolveAssumesYouTube(url) ==
  IF YouTubeVideoID(url) # <<>>
  THEN [website |-> "y2b", videoID |-> YouTubeVideoID(url), p |-> <<>>]
  ELSE IF Includes(url, Chars("bilibili.com")) /\ BilibiliVideoID(url) # <<>>
  THEN [website |-> "bilibili", videoID |-> BilibiliVideoID(url), p |-> PartOf(url)]
  ELSE [website |-> "y2b", videoID |-> url, p |-> <<>>]

\* website, videoID and p as parseVideo sets them before it runs the tool
Resolve(url) ==
  IF Includes(url, Chars("youtube.com")) \/ Includes(url, Chars("youtu.be"))
  THEN IF YouTubeVideoID(url) # <<>>
       THEN [website |-> "y2b", videoID |-> YouTubeVideoID(url), p |-> <<>>]
       ELSE NoPlatform
  ELSE IF Includes(url, Chars("bilibili.com")) /\ BilibiliVideoID(url) # <<>>
  THEN [website |-> "bilibili", videoID |-> BilibiliVideoID(url), p |-> PartOf(url)]
  ELSE NoPlatform

UnsupportedUrl == Chars("unsupported URL: provide a YouTube or Bilibili video URL")

----------------------------------------------------------------------------
(* Metadata Extractor: mapVideoQuality                                      *)

\* String.prototype.toLowerCase on the letters A-Z
ToLowerCase(s) ==
  [i \in 1..Len(s) |->
     IF s[i] \in Upper
     THEN Chars("abcdefghijklmnopqrstuvwxyz")[
            CHOOSE k \in 1..26 : Chars("ABCDEFGHIJKLMNOPQRSTUVWXYZ")[k] = s[i]]
     ELSE s[i]]

\* height >= n for a height that is a number (<<h>>) or undefined (<<>>)
HeightAtLeast(height, n) == height # <<>> /\ height[1] >= n

Quality(quality, standard, label) ==
  [quality |-> quality, standard |-> standard, label |-> label]

\* formatNote || fallback
NoteOr(formatNote, fallback) == IF Truthy(formatNote) THEN formatNote ELSE fallback

\* mapVideoQuality; "480p biaoqing" and "360p liuchang" stand for the two
\* labels the source writes in Chinese
mapVideoQuality(height, formatNote) ==
  LET note == ToLowerCase(formatNote)
      has(s) == Includes(note, s)
  IN IF HeightAtLeast(height, 2160)
       THEN Quality(Chars("2160p"), Chars("4K"), Chars("2160p 4K"))
     ELSE IF HeightAtLeast(height, 1440)
       THEN Quality(Chars("1440p"), Chars("2K"), Chars("1440p 2K"))
     ELSE IF HeightAtLeast(height, 1080)
       THEN Quality(Chars("1080p"), Chars("Full HD"), Chars("1080p Full HD"))
     ELSE IF HeightAtLeast(height, 720)
       THEN Quality(Chars("720p"), Chars("HD"), Chars("720p HD"))
     ELSE IF HeightAtLeast(height, 480)
       THEN Quality(Chars("480p"), Chars("SD"), Chars("480p biaoqing"))
     ELSE IF HeightAtLeast(height, 360)
       THEN Quality(Chars("360p"), Chars("Low"), Chars("360p liuchang"))
     ELSE IF HeightAtLeast(height, 240)
       THEN Quality(Chars("240p"), Chars("Low"), Chars("240p"))
     ELSE IF HeightAtLeast(height, 144)
       THEN Quality(Chars("144p"), Chars("Low"), Chars("144p"))
     ELSE IF has(Chars("4k")) \/ has(Chars("2160"))
       THEN Quality(Chars("2160p"), Chars("4K"), NoteOr(formatNote, Chars("2160p 4K")))
     ELSE IF has(Chars("1440")) \/ has(Chars("2k"))
       THEN Quality(Chars("1440p"), Chars("2K"), NoteOr(formatNote, Chars("1440p 2K")))
     ELSE IF has(Chars("1080")) \/ has(Chars("full hd"))
       THEN Quality(Chars("1080p"), Chars("Full HD"),
                    NoteOr(formatNote, Chars("1080p Full HD")))
     ELSE IF has(Chars("720")) \/ has(Chars("hd"))
       THEN Quality(Chars("720p"), Chars("HD"), NoteOr(formatNote, Chars("720p HD")))
     ELSE IF has(Chars("480"))
       THEN Quality(Chars("480p"), Chars("SD"),
                    NoteOr(formatNote, Chars("480p biaoqing")))
     ELSE IF has(Chars("360"))
       THEN Quality(Chars("360p"), Chars("Low"),
                    NoteOr(formatNote, Chars("360p liuchang")))
     ELSE Quality(Chars("unknown"), Chars("Unknown"), NoteOr(formatNote, Chars("Unknown")))

\* parseVideo classifies one video format of the tool's JSON
Classify(height, formatNote) ==
  /\ req' = [op |-> "classify", height |-> height, note |-> formatNote]
  /\ resp' = mapVideoQuality(height, formatNote)
  /\ events' = <<>>
  /\ UNCHANGED <<now, fs, pendingMkdir, rateLimitStore, inbox, running, videoStore>>

----------------------------------------------------------------------------
(* Subtitle Lister                                                          *)

\* line.trim(), for the blanks of the listing output
RECURSIVE TrimLeft(_)
TrimLeft(s) == IF s # <<>> /\ s[1] = " " THEN TrimLeft(Tail(s)) ELSE s
RECURSIVE TrimRight(_)
TrimRight(s) ==
  IF s # <<>> /\ s[Len(s)] = " " THEN TrimRight(SubSeq(s, 1, Len(s) - 1)) ELSE s
Trim(s) == TrimRight(TrimLeft(s))

\* /.*<marker> .*?:/ : the marker, and a colon somewhere after it
HasHeader(line, marker) ==
  \E i \in 1..Len(line) :
    /\ StartsAt(line, i, marker)
    /\ \E j \in (i + Len(marker))..Len(line) : line[j] = ":"

\* catchSubtitle: "skip" for the header line, "end" for a line that is not a
\* language line (the source returns 0 and -1), else the language code
\* captured by /^(danmaku|[a-z]{2}(?:-[a-zA-Z]+)?).*/
catchSubtitle(line) ==
  IF StartsAt(line, 1, Chars("Language ")) THEN [kind |-> "skip", code |-> <<>>]
  ELSE IF StartsAt(line, 1, Chars("danmaku"))
    THEN [kind |-> "code", code |-> Chars("danmaku")]
  ELSE IF Len(line) >= 2 /\ AllIn(SubSeq(line, 1, 2), Lower)
    THEN [kind |-> "code",
          code |-> IF Len(line) >= 4 /\ line[3] = "-" /\ line[4] \in Alpha
                   THEN SubSeq(line, 1, RunEnd(line, 4, Alpha))
                   ELSE SubSeq(line, 1, 2)]
  ELSE [kind |-> "end", code |-> <<>>]

\* the inner loop: the codes of the official section that starts at line j
RECURSIVE OfficialSubs(_, _)
OfficialSubs(lines, j) ==
  IF j > Len(lines) THEN <<>>
  ELSE IF Trim(lines[j]) = <<>> THEN OfficialSubs(lines, j + 1)
  ELSE LET sub == catchSubtitle(Trim(lines[j]))
       IN IF sub.kind = "end" THEN <<>>
          ELSE IF sub.kind = "skip" THEN OfficialSubs(lines, j + 1)
          ELSE <<sub.code>> \o OfficialSubs(lines, j + 1)

\* the outer loop from line i on; auto: an automatic-captions header was seen
RECURSIVE ScanSubs(_, _, _)
ScanSubs(lines, i, auto) ==
  IF i > Len(lines) THEN [auto |-> auto, official |-> <<>>]
  ELSE IF Trim(lines[i]) = <<>> THEN ScanSubs(lines, i + 1, auto)
  ELSE IF HasHeader(Trim(lines[i]), Chars("Available automatic captions for "))
    THEN ScanSubs(lines, i + 1, TRUE)
  ELSE IF HasHeader(Trim(lines[i]), Chars("Available subtitles for "))
    THEN [auto |-> auto, official |-> OfficialSubs(lines, i + 1)]
  ELSE ScanSubs(lines, i + 1, auto)

\* a scanner that reports automatic captions ahead of the official list
parseSubtitlesAutoFirst(list) ==
  IF list.status # "ok" THEN <<>>
  ELSE LET r == ScanSubs(list.stdout, 1, FALSE)
       IN IF r.auto THEN <<Chars("auto")>> ELSE r.official

\* parseSubtitles, from the outcome of the listing run
parseSubtitles(list) ==
  IF list.status # "ok" THEN <<>>
  ELSE LET r == ScanSubs(list.stdout, 1, FALSE)
       IN IF r.official = <<>>
          THEN (IF r.auto THEN <<Chars("auto")>> ELSE <<>>)
          ELSE r.official

ListCommand(url, cookie) ==
  Chars("yt-dlp --list-subs ") \o CookieParam(cookie) \o Chars(" '") \o url
    \o Chars("' 2> /dev/null")

----------------------------------------------------------------------------
(* Metadata Extractor: parseVideo                                           *)

ParseCommand(url, cookie) ==
  Chars("yt-dlp --print-json --skip-download ") \o CookieParam(cookie)
    \o Chars(" '") \o url \o Chars("' 2> /dev/null")

RetryUrlUnchanged(url) == url
\* retryUrl
RetryUrl(url) ==
  IF Includes(url, Chars("?")) THEN url \o Chars("&p=1") ELSE url \o Chars("?p=1")

RetriesWithPartAnyPlatform(website, p) == ~Truthy(p)
\* the retry condition of the catch branch
RetriesWithPart(website, p) == website = "bilibili" /\ ~Truthy(p)
NeedsPartRetry(url) == \E r \in {Resolve(url)} : RetriesWithPart(r.website, r.p)

ParseFailure(msg) == [thrown |-> TRUE, error |-> msg]
ParseFailed == Chars("parse failed: ")
ExecMessage(out) ==
  IF out.status = "timeout" THEN Chars("spawnSync /bin/sh ETIMEDOUT")
  ELSE Chars("Command failed")
BadJson == Chars("Unexpected token in JSON")

\* a parseVideo that lets a failure of the listing run propagate
ParseReturnedStrict(website, videoID, p, url, cookie, out, list, runs) ==
  [ret |-> IF out.json = "valid" /\ list.status = "ok"
           THEN [thrown |-> FALSE, website |-> website, v |-> videoID, p |-> p,
                 title |-> out.title, subs |-> parseSubtitles(list)]
           ELSE ParseFailure(ParseFailed \o BadJson),
   events |-> IF out.json = "valid"
              THEN runs \o <<EvExec("yt-dlp", ListCommand(url, cookie),
                                     list.status, list.stdout)>>
              ELSE runs]

\* the part of parseVideo after a run of the tool returned: JSON.parse, the
\* subtitle listing with the url as it then is, the result
ParseReturned(website, videoID, p, url, cookie, out, list, runs) ==
  IF out.json # "valid"
  THEN [ret |-> ParseFailure(ParseFailed \o BadJson), events |-> runs]
  ELSE [ret |-> [thrown |-> FALSE, website |-> website, v |-> videoID, p |-> p,
                 title |-> out.title, subs |-> parseSubtitles(list)],
        events |-> runs \o <<EvExec("yt-dlp", ListCommand(url, cookie),
                                    list.status, list.stdout)>>]

\* a parseVideo that lists the subtitles of the URL as it was requested
ListingUrlOriginal(url, retried) == url
\* the url given to parseSubtitles: after the retry, url = retryUrl
ListingUrl(url, retried) == IF retried THEN RetryUrl(url) ELSE url

\* parseVideo: the value returned or the error thrown, and the calls made.
\* first and retry are what the extraction tool does on the first and on the
\* second run, list what the listing run does.
parseVideo(url, cookie, first, retry, list) ==
  LET r == Resolve(url)
      run1 == EvExec("yt-dlp", ParseCommand(url, cookie), first.status, <<>>)
      run2 == EvExec("yt-dlp", ParseCommand(RetryUrl(url), cookie),
                     retry.status, <<>>)
  IN IF r.website = "none"
     THEN [ret |-> ParseFailure(UnsupportedUrl), events |-> <<>>]
     ELSE IF first.status = "ok"
     THEN ParseReturned(r.website, r.videoID, r.p, ListingUrl(url, FALSE),
                        cookie, first, list, <<run1>>)
     ELSE IF ~RetriesWithPart(r.website, r.p)
     THEN [ret |-> ParseFailure(ParseFailed \o ExecMessage(first)),
           events |-> <<run1>>]
     ELSE IF retry.status # "ok"
     THEN [ret |-> ParseFailure(ParseFailed \o ExecMessage(retry)),
           events |-> <<run1, run2>>]
     ELSE ParseReturned(r.website, r.videoID, Chars("1"), ListingUrl(url, TRUE),
                        cookie, retry, list, <<run1, run2>>)

\* what the extraction tool may do in one metadata run
MetaOk(json) == [status |-> "ok", json |-> json, title |-> VideoTitle]
MetaFail == [status |-> "fail", json |-> "none", title |-> <<>>]
MetaTimeout == [status |-> "timeout", json |-> "none", title |-> <<>>]
MetaOutcomes == {MetaOk("valid"), MetaOk("malformed"), MetaFail, MetaTimeout}

\* what the extraction tool may do in the listing run
ListOk(lines) == [status |-> "ok", stdout |-> lines]
ListFail == [status |-> "fail", stdout |-> <<>>]
ListTimeout == [status |-> "timeout", stdout |-> <<>>]
ListOutcomes ==
  {ListOk(<<Chars("[info] Available automatic captions for dQw4w9WgXcQ:"),
            Chars("Language Name Formats"),
            Chars("af Afrikaans vtt, ttml"),
            <<>>,
            Chars("[info] Available subtitles for dQw4w9WgXcQ:"),
            Chars("Language Name Formats"),
            Chars("en English vtt, ttml"),
            Chars("es-419 Spanish (Latin America) vtt"),
            Chars("zh-Hans Chinese (Simplified) vtt"),
            Chars("danmaku xml"),
            <<>>,
            Chars("[info] done")>>),
   ListOk(<<Chars("[info] Available automatic captions for dQw4w9WgXcQ:"),
            Chars("Language Name Formats"),
            Chars("en English vtt"),
            Chars("dQw4w9WgXcQ has no subtitles")>>),
   ListOk(<<Chars("dQw4w9WgXcQ has no automatic captions"),
            Chars("dQw4w9WgXcQ has no subtitles")>>),
   ListOk(<<Chars("[info] Available subtitles for dQw4w9WgXcQ:"),
            Chars("Language Name Formats"),
            Chars("[info] Available automatic captions for dQw4w9WgXcQ:"),
            Chars("Language Name Formats"),
            Chars("en English vtt")>>),
   ListFail, ListTimeout}

----------------------------------------------------------------------------
(* Request validation middleware and the routes                             *)

Reply(status, body) == [status |-> status, body |-> body]
Rejected(msg) == [success |-> FALSE, error |-> msg]

\* validateRequest for a path containing "/download"
DownloadQueryInvalid(v, format) ==
  IF ~Truthy(v) \/ ~ValidVideoID(v) THEN Chars("Invalid video ID format")
  ELSE IF ~Truthy(format) \/ ~ValidFormat(format)
    THEN Chars("Invalid format specification")
  ELSE <<>>

\* GET /api/download
ServeDownload(website, v, p, format, recode, merge, cookie, outs) ==
  /\ req' = [op |-> "download", website |-> website, v |-> v, p |-> p,
             format |-> format, recode |-> recode, merge |-> merge]
  /\ IF DownloadQueryInvalid(v, format) # <<>>
     THEN /\ resp' = Reply(400, Rejected(DownloadQueryInvalid(v, format)))
          /\ events' = <<>>
          /\ fs' = fs
     ELSE IF ~Truthy(v) \/ ~Truthy(format)
     THEN /\ resp' = Reply(400, Rejected(Chars("Video ID and format are required")))
          /\ events' = <<>>
          /\ fs' = fs
     ELSE \E out \in outs :
            \E r \in {downloadVideo(fs, now, website, v, p, format, recode,
                                     merge, cookie, out)} :
              /\ resp' = Reply(200, [success |-> TRUE, result |-> r.ret])
              /\ events' = r.events
              /\ fs' = r.fs
  /\ UNCHANGED <<now, pendingMkdir>>

\* the request is served with nothing else under way
HttpDownload(website, v, p, format, recode, merge, cookie, outs) ==
  /\ ServeDownload(website, v, p, format, recode, merge, cookie, outs)
  /\ UNCHANGED <<rateLimitStore, inbox, running, videoStore>>

\* the prefix youtubeRegex of isValidURL matches,
\* /^https?:\/\/(?:youtu\.be\/|(?:www|m)\.youtube\.com\/(?:watch|shorts)(?:\/|\?.*v=))([\w-]{11})/
YouTubeUrlValid(url) ==
  \E s \in {Chars("http://"), Chars("https://")} :
    \/ StartsAt(url, 1, s \o Chars("youtu.be/"))
         /\ Has11(url, Len(s) + Len(Chars("youtu.be/")) + 1)
    \/ \E h \in {Chars("www"), Chars("m")}, w \in {Chars("watch"), Chars("shorts")} :
         LET pre == s \o h \o Chars(".youtube.com/") \o w
         IN /\ StartsAt(url, 1, pre)
            /\ \/ StartsAt(url, Len(pre) + 1, Chars("/")) /\ Has11(url, Len(pre) + 2)
               \/ /\ StartsAt(url, Len(pre) + 1, Chars("?"))
                  /\ \E k \in (Len(pre) + 2)..Len(url) :
                       StartsAt(url, k, Chars("v=")) /\ Has11(url, k + 2)

\* isValidURL
isValidURL(url) == YouTubeUrlValid(url) \/ BilibiliVideoID(url) # <<>>

\* The outcomes to choose from for the second metadata run and for the listing
\* run: a run that parseVideo does not reach has no outcome to choose.
RetryOutcomes(url, first, metas) ==
  IF first.status # "ok" /\ NeedsPartRetry(url) THEN metas ELSE {MetaFail}
ListingOutcomes(first, retry, lists) ==
  IF \E out \in {first, retry} : out.status = "ok" /\ out.json = "valid"
  THEN lists ELSE {ListFail}

\* GET /api/parse; metas and lists are what the extraction tool may do in a
\* metadata run and in the listing run
ServeParse(url, cookie, metas, lists) ==
  /\ req' = [op |-> "parse", url |-> url]
  /\ IF ~Truthy(url)
     THEN /\ resp' = Reply(400, Rejected(Chars("URL parameter is required")))
          /\ events' = <<>>
     ELSE IF ~isValidURL(url)
     THEN /\ resp' = Reply(400, Rejected(Chars("Invalid URL format")))
          /\ events' = <<>>
     ELSE \E first \in metas :
          \E retry \in RetryOutcomes(url, first, metas) :
          \E list \in ListingOutcomes(first, retry, lists) :
            \E r \in {parseVideo(url, cookie, first, retry, list)} :
              /\ resp' = IF r.ret.thrown
                         THEN Reply(500, Rejected(r.ret.error))
                         ELSE Reply(200, [success |-> TRUE, result |-> r.ret])
              /\ events' = r.events
  /\ UNCHANGED <<now, fs, pendingMkdir>>

\* the request is served with nothing else under way
HttpParse(url, cookie, metas, lists) ==
  /\ ServeParse(url, cookie, metas, lists)
  /\ UNCHANGED <<rateLimitStore, inbox, running, videoStore>>

\* what the extraction tool may do for one subtitle request: write the
\* subtitle or not, write a readable or an unreadable sidecar or none, exit
\* non-zero, or run into the timeout
SubOk(sub, info, title) ==
  [status |-> "ok", sub |-> sub, info |-> info, title |-> title]
SubFail == [status |-> "fail", sub |-> <<>>, info |-> "none", title |-> <<>>]
SubTimeout == [status |-> "timeout", sub |-> <<>>, info |-> "none", title |-> <<>>]
SubtitleOutcomes ==
  {SubOk(Chars("hello"), "info", VideoTitle),
   SubOk(Chars("world"), "none", <<>>),
   SubOk(Chars("hello"), "garbled", <<>>),
   SubOk(Chars("world"), "info", <<>>),
   SubOk(<<>>, "info", VideoTitle),
   SubFail, SubTimeout}

\* POST /api/subtitle; outs is what the extraction tool may do
ServeSubtitleWhen(website, id, p, locale, ext, type, cookie, outs) ==
  /\ req' = [op |-> "subtitle", website |-> website, id |-> id, p |-> p,
             locale |-> locale, ext |-> ext, type |-> type]
  /\ IF SubtitleBodyInvalid(id, locale, ext, type) # <<>>
     THEN /\ resp' = Reply(400, Rejected(SubtitleBodyInvalid(id, locale, ext, type)))
          /\ events' = <<>>
          /\ fs' = fs
     ELSE IF ~Truthy(id) \/ ~Truthy(locale) \/ ~Truthy(ext) \/ ~Truthy(type)
     THEN /\ resp' = Reply(400, Rejected(Chars("Missing required parameters")))
          /\ events' = <<>>
          /\ fs' = fs
     ELSE \E out \in outs,
             conv \in IF NeedsConversion(website, id, p, locale, ext)
                      THEN BOOLEAN ELSE {TRUE} :
            \E r \in {downloadSubtitle(fs, now, website, id, p, locale, ext,
                                       type, cookie, out, conv)} :
              /\ resp' = Reply(200, r.ret)
              /\ events' = r.events
              /\ fs' = r.fs
  /\ UNCHANGED <<now, pendingMkdir>>

\* POST /api/subtitle, whatever the extraction tool does
ServeSubtitle(website, id, p, locale, ext, type, cookie) ==
  ServeSubtitleWhen(website, id, p, locale, ext, type, cookie, SubtitleOutcomes)

\* the request is served with nothing else under way
HttpSubtitle(website, id, p, locale, ext, type, cookie) ==
  /\ ServeSubtitle(website, id, p, locale, ext, type, cookie)
  /\ UNCHANGED <<rateLimitStore, inbox, running, videoStore>>

----------------------------------------------------------------------------
(* Rate limiter: the middleware in front of every /api route.              *)
(* rateLimitStore maps a client address to the timestamps of the requests  *)
(* the limiter let through, once for the minute window and once for the    *)
(* hour window.  The actions of the routes above model requests the        *)
(* limiter has let through.                                                *)

RATE_LIMIT_WINDOW == 60000

RATE_LIMIT_MAX_REQUESTS == 30

RATE_LIMIT_MAX_REQUESTS_PER_HOUR == 200

\* 60 * 60 * 1000
HourWindow == 3600000

\* timestamps.filter(timestamp => t - timestamp < window)
Recent(timestamps, t, window) ==
  SelectSeq(timestamps, LAMBDA timestamp : t - timestamp < window)

\* one entry of the store after cleanupOldEntries
CleanEntry(data, t) ==
  [requests |-> Recent(data.requests, t, RATE_LIMIT_WINDOW),
   hourlyRequests |->
     SelectSeq(data.hourlyRequests,
               LAMBDA timestamp : timestamp > t - HourWindow)]

\* cleanupOldEntries(now): every entry is filtered, and a client with no
\* timestamp left is deleted
cleanupOldEntries(store, t) ==
  LET kept == {c \in DOMAIN store :
                 ~ (/\ CleanEntry(store[c], t).requests = <<>>
                    /\ CleanEntry(store[c], t).hourlyRequests = <<>>)}
  IN  [c \in kept |-> CleanEntry(store[c], t)]

\* get or create the client record
ClientData(store, clientIP) ==
  IF clientIP \in DOMAIN store
    THEN store[clientIP]
    ELSE [requests |-> <<>>, hourlyRequests |-> <<>>]

\* Math.max(0, n)
AtLeastZero(n) == IF n < 0 THEN 0 ELSE n

TooMany(error, currentCount, limit, retryAfter) ==
  Reply(429, [success |-> FALSE, error |-> error, retryAfter |-> retryAfter,
              currentCount |-> currentCount, limit |-> limit])

\* the request goes on to its route, with the X-RateLimit headers set
PassedOn(recentRequests, hourlyRequests) ==
  [status |-> 0,
   headers |->
     [limit |-> RATE_LIMIT_MAX_REQUESTS,
      remaining |->
        AtLeastZero(RATE_LIMIT_MAX_REQUESTS - Len(recentRequests) - 1),
      hourlyLimit |-> RATE_LIMIT_MAX_REQUESTS_PER_HOUR,
      hourlyRemaining |->
        AtLeastZero(RATE_LIMIT_MAX_REQUESTS_PER_HOUR
                      - Len(hourlyRequests) - 1)]]

\* a limit that lets one request more through
OverLimit(count, limit) == count > limit

\* recentRequests.length >= RATE_LIMIT_MAX_REQUESTS, and the same test of the
\* hourly list
AtLimit(count, limit) == count >= limit

\* a refusal that is counted like a request let through
RefusedCounted(store, clientIP, t) ==
  [store EXCEPT ![clientIP] =
     [requests |-> Append(store[clientIP].requests, t),
      hourlyRequests |-> Append(store[clientIP].hourlyRequests, t)]]

\* the store after a request was answered 429: the handler returns before
\* the lists are assigned
Refused(store, clientIP, t) == store

\* rateLimiter(req, res, next) for a request of the client clientIP
RateLimiter(clientIP) ==
  LET cleaned        == cleanupOldEntries(rateLimitStore, now)
      clientData     == ClientData(cleaned, clientIP)
      store          == [c \in DOMAIN cleaned \cup {clientIP} |->
                           IF c = clientIP THEN clientData ELSE cleaned[c]]
      recentRequests == Recent(clientData.requests, now, RATE_LIMIT_WINDOW)
      hourlyRequests == Recent(clientData.hourlyRequests, now, HourWindow)
  IN  /\ req' = [op |-> "api", clientIP |-> clientIP]
      /\ events' = <<>>
      /\ IF AtLimit(Len(recentRequests), RATE_LIMIT_MAX_REQUESTS)
           THEN /\ rateLimitStore' = Refused(store, clientIP, now)
                /\ resp' = TooMany("Rate limit exceeded", Len(recentRequests),
                                   RATE_LIMIT_MAX_REQUESTS, 60)
           ELSE IF AtLimit(Len(hourlyRequests), RATE_LIMIT_MAX_REQUESTS_PER_HOUR)
             THEN /\ rateLimitStore' = Refused(store, clientIP, now)
                  /\ resp' = TooMany("Hourly rate limit exceeded",
                                     Len(hourlyRequests),
                                     RATE_LIMIT_MAX_REQUESTS_PER_HOUR, 3600)
             ELSE /\ rateLimitStore' =
                       [store EXCEPT ![clientIP] =
                          [requests |-> Append(recentRequests, now),
                           hourlyRequests |-> Append(hourlyRequests, now)]]
                  /\ resp' = PassedOn(recentRequests, hourlyRequests)
      /\ UNCHANGED <<now, fs, pendingMkdir, inbox, running, videoStore>>

----------------------------------------------------------------------------
(* Retention Manager                                                        *)

Space == {" "}

DigitValue(c) ==
  CASE c = "0" -> 0 [] c = "1" -> 1 [] c = "2" -> 2 [] c = "3" -> 3
    [] c = "4" -> 4 [] c = "5" -> 5 [] c = "6" -> 6 [] c = "7" -> 7
    [] c = "8" -> 8 [] c = "9" -> 9

\* parseInt of a string of digits
RECURSIVE ParseInt(_)
ParseInt(s) ==
  IF s = <<>> THEN 0
  ELSE 10 * ParseInt(SubSeq(s, 1, Len(s) - 1)) + DigitValue(s[Len(s)])

\* positions i of a line where /\s(\d+)%/ matches: white space at i, then
\* one or more digits, then "%"
UsageMatches(line) ==
  {i \in 1..Len(line) :
     /\ line[i] \in Space
     /\ RunEnd(line, i + 1, Digit) > i
     /\ RunEnd(line, i + 1, Digit) < Len(line)
     /\ line[RunEnd(line, i + 1, Digit) + 1] = "%"}

\* parseInt(match[1]) of /.*\s(\d+)%/: the leading .* is greedy, so the
\* last position that matches
UsageOf(line) ==
  LET i == CHOOSE k \in UsageMatches(line) : \A j \in UsageMatches(line) : j <= k
  IN ParseInt(SubSeq(line, i + 1, RunEnd(line, i + 1, Digit)))

\* a ceiling test that also fires at the ceiling itself
OverCeilingInclusive(usage) == usage >= maxDiskUsage

\* usage > config.maxDiskUsage
OverCeiling(usage) == usage > maxDiskUsage

\* checkDiskSpace: does some line of the df output report a utilization
\* above the ceiling (the loop stops at the first such line)
MustPurge(df) ==
  /\ df.status = "ok"
  /\ \E i \in 1..Len(df.stdout) :
       /\ UsageMatches(df.stdout[i]) # {}
       /\ OverCeiling(UsageOf(df.stdout[i]))

\* a cleanAllFiles that recreates the directory before it returns
cleanAllFilesSync(f) ==
  IF Exists(f, Root)
  THEN [fs |-> MkdirP(RmRecursive(f, Root), Root, now), queued |-> 0]
  ELSE [fs |-> f, queued |-> 0]

\* cleanAllFiles: the synchronous part; the mkdirSync that recreates the
\* directory runs later, in the callback of import('fs')
cleanAllFiles(f) ==
  IF Exists(f, Root)
  THEN [fs |-> RmRecursive(f, Root), queued |-> 1]
  ELSE [fs |-> f, queued |-> 0]

\* an age test that also fires at exactly max-age
TooOldInclusive(t, mtime) == t - mtime >= maxAge

\* an age test that fires a millisecond late
TooOldLate(t, mtime) == t - mtime > maxAge + 1

\* age > config.maxAge
TooOld(t, mtime) == t - mtime > maxAge

\* the direct children of the root that cleanOldFiles removes at time t
OldItems(f, t) == {q \in Children(f, Root) : TooOld(t, f[q].mtime)}

\* a sweep that stops at the first item whose examination or removal throws
\* (here: removes nothing once any item fails)
SweptUntilError(f, t, failing) ==
  IF failing = {} THEN OldItems(f, t) ELSE {}

\* the items the loop of cleanOldFiles removes when statSync or rmSync throws
\* for the items in failing: the try/catch is inside the loop, so a failing
\* item is logged and left in place and the loop goes on
Swept(f, t, failing) == OldItems(f, t) \ failing

\* cleanOldFiles, when the file operations on the items in failing throw
cleanOldFilesWhen(f, t, failing) ==
  IF ~Exists(f, Root) THEN f
  ELSE [q \in {r \in DOMAIN f :
                 \A o \in Swept(f, t, failing) : ~IsPrefix(o, r)} |-> f[q]]

\* cleanOldFiles, when no file operation throws
cleanOldFiles(f, t) == cleanOldFilesWhen(f, t, {})

\* `df -h .`
DfHeader == Chars("Filesystem      Size  Used Avail Use% Mounted on")
DfLine(usage) == Chars("/dev/sda1        50G   45G  5.0G  ") \o usage \o Chars("% /")
DfOk(lines) == [status |-> "ok", stdout |-> lines]
DfFail == [status |-> "fail", stdout |-> <<>>]
DfUsages == {Chars("45"), Chars("90"), Chars("91"), Chars("100")}
DfOutcomes ==
  {DfOk(<<DfHeader, DfLine(u), <<>>>>) : u \in DfUsages}
    \cup {DfOk(<<DfHeader, <<>>>>), DfFail}

\* at most MaxPending recreate callbacks are followed at a time
MaxPending == 2

\* cleanupFiles, run by the hourly cron task: checkDiskSpace, then
\* cleanOldFiles; failing are the direct children of the root on which
\* statSync or rmSync throws during the sweep
CleanupWhen(df, failing) ==
  \E purge \in {MustPurge(df)} :
    \E all \in {IF purge THEN cleanAllFiles(fs) ELSE [fs |-> fs, queued |-> 0]} :
      /\ pendingMkdir + all.queued <= MaxPending
      /\ failing \subseteq Children(all.fs, Root)
      /\ req' = [op |-> "cleanup", df |-> df, failing |-> failing]
      /\ resp' = [at |-> now, purged |-> purge, swept |-> Exists(all.fs, Root),
                  removed |-> Children(fs, Root)
                                \ Children(cleanOldFilesWhen(all.fs, now, failing),
                                           Root)]
      /\ events' = <<EvExec("df", Chars("df -h ."), df.status, df.stdout)>>
                      \o (IF Exists(all.fs, Root) THEN <<EvReaddir(Root)>>
                          ELSE <<>>)
      /\ fs' = cleanOldFilesWhen(all.fs, now, failing)
      /\ pendingMkdir' = pendingMkdir + all.queued
      /\ UNCHANGED <<now, rateLimitStore, inbox, running, videoStore>>

\* a cleanup cycle in which no file operation throws
Cleanup(df) == CleanupWhen(df, {})

\* the callback queued by cleanAllFiles: fs.mkdirSync(config.tmpDir, ...)
RecreateTmpDir ==
  /\ pendingMkdir > 0
  /\ pendingMkdir' = pendingMkdir - 1
  /\ fs' = MkdirP(fs, Root, now)
  /\ UNCHANGED <<now, req, resp, events, rateLimitStore, inbox, running, videoStore>>
----------------------------------------------------------------------------
(* Queries: getDownloadStatus and getCleanupStats read the tree             *)

\* the exported getDownloadStatus, asked for a key
Status(videoID, format, p) ==
  /\ req' = [op |-> "status", v |-> videoID, p |-> p, format |-> format]
  /\ resp' = getDownloadStatus(fs, videoID, format, p)
  /\ events' = <<>>
  /\ UNCHANGED <<now, fs, pendingMkdir, rateLimitStore, inbox, running, videoStore>>

\* diskUsage of getCleanupStats: `${match[1]}%` for /.*\s(\d+)%/ on the df
\* output (the first line with a match, the last match on it), 'unknown'
\* when df fails or nothing matches
StatsUsage(df) ==
  LET hits == {i \in 1..Len(df.stdout) : UsageMatches(df.stdout[i]) # {}}
      first == CHOOSE i \in hits : \A j \in hits : i <= j
      at == CHOOSE k \in UsageMatches(df.stdout[first]) :
              \A j \in UsageMatches(df.stdout[first]) : j <= k
  IN IF df.status # "ok" \/ hits = {} THEN Chars("unknown")
     ELSE SubSeq(df.stdout[first], at + 1, RunEnd(df.stdout[first], at + 1, Digit))
            \o Chars("%")

\* getCleanupStats at time t: the files below the root are counted, those
\* older than max-age separately (file sizes are not part of the tree, so
\* totalSize is left out)
getCleanupStats(f, t, df) ==
  LET files == {q \in DOMAIN f : f[q].kind = "file"}
  IN IF ~Exists(f, Root)
     THEN [totalFiles |-> 0, oldFiles |-> 0, diskUsage |-> Chars("unknown")]
     ELSE [totalFiles |-> Cardinality(files),
           oldFiles |-> Cardinality({q \in files : TooOld(t, f[q].mtime)}),
           diskUsage |-> StatsUsage(df),
           maxAge |-> maxAge \div 3600000,
           tmpDir |-> tmpDir]

\* the exported getCleanupStats; df is run only when the root exists
Stats(df) ==
  /\ req' = [op |-> "stats", df |-> df]
  /\ resp' = getCleanupStats(fs, now, df)
  /\ events' = IF Exists(fs, Root)
               THEN <<EvExec("df", Chars("df -h ."), df.status, df.stdout)>>
               ELSE <<>>
  /\ UNCHANGED <<now, fs, pendingMkdir, rateLimitStore, inbox, running, videoStore>>


----------------------------------------------------------------------------
(* Time                                                                     *)

\* the clock is followed at 0..MaxExtra milliseconds after each multiple of
\* config.maxAge, up to maxAge + MaxExtra
MaxExtra == 1
\* the clock advances by a millisecond or by config.maxAge
Tick(d) ==
  /\ now + d <= maxAge + MaxExtra
  /\ (now + d) % maxAge <= MaxExtra
  /\ now' = now + d
  /\ UNCHANGED <<fs, pendingMkdir, req, resp, events, rateLimitStore, inbox,
                  running, videoStore>>

\* the instants at which the rate limiter is followed: the start, the last
\* millisecond of the first minute window, and the first one after it
RateInstants == {0, RATE_LIMIT_WINDOW - 1, RATE_LIMIT_WINDOW}

\* Date.now() moves on to the instant t
Elapse(t) ==
  /\ t \in RateInstants
  /\ t > now
  /\ now' = t
  /\ UNCHANGED <<fs, pendingMkdir, req, resp, events, rateLimitStore, inbox,
                  running, videoStore>>

\* the instants at which a client that sends as fast as it is let through
\* is followed: the starts of the minutes in which it fills the hour, and the
\* instants around the end of the hour and of the minute after it
BusyInstants ==
  {k * RATE_LIMIT_WINDOW : k \in 0..7}
    \cup {HourWindow - 1, HourWindow, HourWindow + RATE_LIMIT_WINDOW - 1,
          HourWindow + RATE_LIMIT_WINDOW}

\* Date.now() moves on to the instant t once the client has been refused
ElapseRefused(t) ==
  /\ t \in BusyInstants
  /\ t > now
  /\ req.op = "api" /\ resp.status = 429
  /\ now' = t
  /\ UNCHANGED <<fs, pendingMkdir, req, resp, events, rateLimitStore, inbox,
                  running, videoStore>>

----------------------------------------------------------------------------
(* Video store of the front end (useVideoStore).  videoStore is the state   *)
(* object of the store.  A VideoInfo is known by its id; null is <<>> and a *)
(* video that is not null is a one-element sequence, and so is an error     *)
(* message.                                                                 *)

initialState ==
  [currentVideo |-> <<>>, isLoading |-> FALSE, error |-> <<>>, history |-> <<>>,
   defaultQuality |-> "720p", autoPlay |-> FALSE]

\* a slice that keeps 50 items
KeptFifty(history) ==
  SubSeq(history, 1, IF Len(history) < 50 THEN Len(history) ELSE 50)

\* history.slice(0, 49)
Kept(history) ==
  SubSeq(history, 1, IF Len(history) < 49 THEN Len(history) ELSE 49)

\* the new item of addToHistory at the instant t; the id is
\* `${video.id}-${Date.now()}`
NewItem(video, t) ==
  [id |-> <<video.id, t>>, video |-> video, parsed_at |-> t, access_count |-> 1,
   last_accessed |-> t]

\* history.findIndex(item => item.video.id === video.id), 0 for -1
FindIndex(history, video) ==
  LET found == {i \in 1..Len(history) : history[i].video.id = video.id}
  IN IF found = {} THEN 0 ELSE CHOOSE i \in found : \A j \in found : i <= j

\* addToHistory(video) at the instant t
addToHistory(s, video, t) ==
  LET existingIndex == FindIndex(s.history, video)
  IN IF existingIndex > 0
     THEN [s EXCEPT !.history[existingIndex] =
             [@ EXCEPT !.last_accessed = t, !.access_count = @ + 1]]
     ELSE [s EXCEPT !.history = <<NewItem(video, t)>> \o Kept(@)]

\* setCurrentVideo(video) at the instant t
setCurrentVideo(s, video, t) ==
  IF video # <<>>
  THEN addToHistory([s EXCEPT !.currentVideo = video, !.error = <<>>], video[1], t)
  ELSE [s EXCEPT !.currentVideo = video, !.error = <<>>]

\* setLoading(loading)
setLoading(s, loading) == [s EXCEPT !.isLoading = loading]

\* setError(error)
setError(s, error) == [s EXCEPT !.error = error, !.isLoading = FALSE]

\* removeFromHistory(id): id is the id of an item
removeFromHistory(s, id) ==
  [s EXCEPT !.history = SelectSeq(@, LAMBDA item : item.id # id)]

\* clearHistory()
clearHistory(s) == [s EXCEPT !.history = <<>>]

\* updateAccessCount(id) at the instant t
updateAccessCount(s, id, t) ==
  [s EXCEPT !.history =
     [i \in 1..Len(@) |->
        IF @[i].id = id
        THEN [@[i] EXCEPT !.access_count = @ + 1, !.last_accessed = t]
        ELSE @[i]]]

\* setDefaultQuality(quality)
setDefaultQuality(s, quality) == [s EXCEPT !.defaultQuality = quality]

\* setAutoPlay(autoPlay)
setAutoPlay(s, autoPlay) == [s EXCEPT !.autoPlay = autoPlay]

\* The videos are numbered in the order in which they are first shown, up to
\* MaxVideos.  Showing new videos one after the other leaves the newest
\* video and the ones before it, 50 at most, each accessed once, the newest
\* one current, the flags and the settings as they were initially.  The
\* store is followed while it differs from that by MaxOdd at most, where an
\* access beyond the first, a video missing from the history and a current
\* video that is not the newest item count two each, and a flag or a setting
\* that is not the initial one counts one.
MaxVideos == 52
MaxOdd == 2

VideoIds(history) == {history[i].video.id : i \in 1..Len(history)}

Odd(s) ==
  LET h == s.history
      again == UNION {{<<i, k>> : k \in 2..h[i].access_count} : i \in 1..Len(h)}
      span == IF h = <<>> THEN 0 ELSE h[1].video.id - h[Len(h)].video.id + 1
      full == IF h = <<>> THEN 0
              ELSE IF h[1].video.id < 50 THEN h[1].video.id ELSE 50
      missing == IF span < full THEN full - Len(h) ELSE span - Len(h)
      flag(b) == IF b THEN 1 ELSE 0
  IN 2 * (Cardinality(again) + missing
            + flag(s.currentVideo # (IF h = <<>> THEN <<>> ELSE <<h[1].video>>)))
       + flag(s.isLoading) + flag(s.error # <<>>)
       + flag(s.defaultQuality # "720p") + flag(s.autoPlay)

\* the videos an action is called with: the next new one, and the ones of
\* the newest, the middle and the oldest item
ShownVideos(s) ==
  LET h == s.history
  IN (IF h = <<>> THEN {[id |-> 1]}
      ELSE {[id |-> n] : n \in {h[1].video.id + 1} \cap 1..MaxVideos}
             \cup {h[i].video : i \in {1, (Len(h) + 1) \div 2, Len(h)}})

\* the item ids an action is called with: those of the newest, the middle
\* and the oldest item, and one of no item
ShownItems(s) ==
  LET h == s.history
  IN {<<0, 0>>} \cup (IF h = <<>> THEN {}
                      ELSE {h[i].id : i \in {1, (Len(h) + 1) \div 2, Len(h)}})

\* a call of an action of the store: the state object is replaced by next;
\* added is the video that the call hands to addToHistory, <<>> if it hands
\* none
StoreCall(added, next) ==
  /\ Odd(next) <= MaxOdd
  /\ videoStore' = next
  /\ req' = [op |-> "store", added |-> added]
  /\ UNCHANGED <<now, fs, pendingMkdir, resp, events, rateLimitStore, inbox,
                  running>>

SetCurrentVideo(video) ==
  StoreCall(video, setCurrentVideo(videoStore, video, now))
SetLoading(loading) == StoreCall(<<>>, setLoading(videoStore, loading))
SetError(error) == StoreCall(<<>>, setError(videoStore, error))
AddToHistory(video) == StoreCall(<<video>>, addToHistory(videoStore, video, now))
RemoveFromHistory(id) == StoreCall(<<>>, removeFromHistory(videoStore, id))
ClearHistory == StoreCall(<<>>, clearHistory(videoStore))
UpdateAccessCount(id) ==
  StoreCall(<<>>, updateAccessCount(videoStore, id, now))
SetDefaultQuality(quality) ==
  StoreCall(<<>>, setDefaultQuality(videoStore, quality))
SetAutoPlay(autoPlay) == StoreCall(<<>>, setAutoPlay(videoStore, autoPlay))

----------------------------------------------------------------------------
(* Initial state: the server has started, the module initialisers have     *)
(* created the temporary-storage root, no request has been served          *)

\* no handler is on the stack
Idle == 0

Init ==
  /\ now = 0
  /\ fs = [q \in {Root} |-> DirNode(0)]
  /\ pendingMkdir = 0
  /\ req = [op |-> "none"]
  /\ resp = [status |-> 0]
  /\ events = <<>>
  /\ rateLimitStore = <<>>
  /\ inbox = {}
  /\ running = Idle
  /\ videoStore = initialState

----------------------------------------------------------------------------
(* Requests                                                                 *)

YouTubeID == Chars("dQw4w9WgXcQ")
BilibiliID == Chars("BV1ERROR17mD")
BadIDs == {Absent, Chars("short"), Chars("dQw4w9WgXc!"), Chars("BV1xx411c7mD123")}
BadParts == {Chars("1a"), Chars("-1")}
BadFormats == {Absent, Chars("???"), Chars("137+140"), Chars("13 7")}

\* the download requests: single-stream and merge-pair requests for a
\* YouTube video and for part 1 of a Bilibili video, a request for a
\* single stream whose identifier holds an "x", and every request that
\* differs from a well-formed one in one malformed field
DlReq(website, v, p, format, recode, merge, cookie) ==
  [website |-> website, v |-> v, p |-> p, format |-> format,
   recode |-> recode, merge |-> merge, cookie |-> cookie]
GoodDownloadRequests ==
  {DlReq("y2b", YouTubeID, Absent, Chars("137"), Absent, FALSE, FALSE),
   DlReq("y2b", YouTubeID, Absent, Chars("137x140"), Absent, TRUE, FALSE),
   DlReq("y2b", YouTubeID, Absent, Chars("137x140"), Chars("mp4"), FALSE, TRUE),
   DlReq("bilibili", BilibiliID, Chars("1"), Chars("30080"), Absent, TRUE, FALSE),
   DlReq("y2b", YouTubeID, Absent, Chars("x1"), Absent, FALSE, FALSE)}
BadDownloadRequests ==
  LET base == {DlReq("y2b", YouTubeID, Absent, Chars("137"), Absent, FALSE, FALSE),
               DlReq("bilibili", BilibiliID, Chars("1"), Chars("30080"), Absent,
                     TRUE, FALSE)}
  IN UNION {{[b EXCEPT !.v = x] : x \in BadIDs}
              \cup {[b EXCEPT !.p = x] : x \in BadParts}
              \cup {[b EXCEPT !.format = x] : x \in BadFormats} : b \in base}
DownloadRequests == GoodDownloadRequests \cup BadDownloadRequests

\* requests are followed while the tree holds at most MaxNodes nodes
MaxNodes == 4

DownloadNext ==
  /\ Cardinality(DOMAIN fs) <= MaxNodes
  /\ \E r \in DownloadRequests :
       HttpDownload(r.website, r.v, r.p, r.format, r.recode, r.merge, r.cookie,
                    DownloadOutcomes(r.v, r.p, r.format, r.merge))

SpecDownload == Init /\ [][DownloadNext]_vars

\* repeated download requests: one format of a YouTube video and one of
\* part 2 of a Bilibili video, the tool writing one of two containers or
\* failing, the clock advancing
RepeatedKeys ==
  {DlReq("y2b", YouTubeID, Absent, Chars("137"), Absent, FALSE, FALSE),
   DlReq("bilibili", BilibiliID, Chars("2"), Chars("30080"), Absent, FALSE, FALSE)}
RepeatedOutcomes ==
  {ToolOk(Chars("mp4"), <<>>), ToolOk(Chars("webm"), <<>>), ToolFail(<<>>)}
RepeatNext ==
  \/ \E r \in RepeatedKeys :
       HttpDownload(r.website, r.v, r.p, r.format, r.recode, r.merge, r.cookie,
                    RepeatedOutcomes)
  \/ Tick(1)

SpecRepeat == Init /\ [][RepeatNext]_vars

\* the download requests followed together with the retention manager:
\* two formats of one video and one format of another, each download
\* finishing normally
RetentionDownload ==
  \E a \in {<<YouTubeID, Chars("137")>>, <<YouTubeID, Chars("140")>>,
            <<BilibiliID, Chars("137")>>} :
    HttpDownload("y2b", a[1], Absent, a[2], Absent, FALSE, FALSE,
                 {ToolOk(Chars("mp4"), <<>>)})

RetentionNext ==
  \/ RetentionDownload
  \/ \E df \in DfOutcomes : Cleanup(df)
  \/ RecreateTmpDir
  \/ \E d \in {1, maxAge} : Tick(d)

SpecRetention == Init /\ [][RetentionNext]_vars

\* the retention manager on a tree some of whose items cannot be examined
\* or removed, with a disk below and a disk above the ceiling
SweepDf == {DfOk(<<DfHeader, DfLine(u), <<>>>>) : u \in {Chars("45"), Chars("91")}}

SweepNext ==
  \/ RetentionDownload
  \/ \E df \in SweepDf : \E failing \in SUBSET Children(fs, Root) :
       CleanupWhen(df, failing)
  \/ RecreateTmpDir
  \/ \E d \in {1, maxAge} : Tick(d)

SpecSweep == Init /\ [][SweepNext]_vars


\* the subtitle requests: well-formed ones for a YouTube video and for part
\* 1 of a Bilibili video, with and without a difference between the desired
\* and the native container, and every request that differs from a
\* well-formed one in one malformed field
SubReq(website, id, p, locale, ext, type) ==
  [website |-> website, id |-> id, p |-> p, locale |-> locale, ext |-> ext,
   type |-> type]
GoodSubtitleRequests ==
  {SubReq("y2b", YouTubeID, Absent, Chars("en"), ext, type) :
     ext \in {Chars(".vtt"), Chars(".srt")},
     type \in {Chars("native"), Chars("auto")}}
  \cup {SubReq("bilibili", BilibiliID, Chars("1"), Chars("zh-Hans"), ext,
               Chars("native")) : ext \in {Chars(".vtt"), Chars(".srt")}}
  \cup {SubReq("bilibili", BilibiliID, Chars("1"), Chars("danmaku"), ext,
               Chars("native")) : ext \in {Chars(".xml"), Chars(".ass")}}
BadLocales == {Absent, Chars("123"), Chars("e"), Chars("en-U"), Chars("en-USUSA"),
               Chars("EN")}
BadExts == {Absent, Chars(".exe"), Chars("vtt"), Chars(".vtt2")}
BadTypes == {Absent, Chars("manual")}
BadSubtitleRequests ==
  LET base == {SubReq("y2b", YouTubeID, Absent, Chars("en"), Chars(".srt"),
                      Chars("native")),
               SubReq("bilibili", BilibiliID, Chars("1"), Chars("danmaku"),
                      Chars(".ass"), Chars("native"))}
  IN UNION {{[b EXCEPT !.id = x] : x \in BadIDs}
              \cup {[b EXCEPT !.p = x] : x \in BadParts}
              \cup {[b EXCEPT !.locale = x] : x \in BadLocales}
              \cup {[b EXCEPT !.ext = x] : x \in BadExts}
              \cup {[b EXCEPT !.type = x] : x \in BadTypes} : b \in base}
SubtitleRequests == GoodSubtitleRequests \cup BadSubtitleRequests

SubtitleNext ==
  /\ Cardinality(DOMAIN fs) <= MaxNodes
  /\ \E r \in SubtitleRequests :
       HttpSubtitle(r.website, r.id, r.p, r.locale, r.ext, r.type, FALSE)

SpecSubtitle == Init /\ [][SubtitleNext]_vars

\* the parse requests
ParseUrls ==
  {Chars("https://www.youtube.com/watch?v=dQw4w9WgXcQ"),
   Chars("https://www.youtube.com/watch?list=PL1&v=dQw4w9WgXcQ&t=42"),
   Chars("https://youtu.be/dQw4w9WgXcQ"),
   Chars("https://www.youtube.com/shorts/dQw4w9WgXcQ"),
   Chars("https://www.bilibili.com/video/BV1ERROR17mD"),
   Chars("https://www.bilibili.com/video/BV1ERROR17mD/?spm=1"),
   Chars("https://www.bilibili.com/video/BV1ERROR17mD?p=2"),
   Chars("https://m.bilibili.com/video/BV1ERROR17mD?spm=1&p=3"),
   Chars("https://www.bilibili.com/video/short"),
   Chars("https://vimeo.com/12345678901"),
   Absent}

ParseNext ==
  \E url \in ParseUrls, cookie \in BOOLEAN :
    HttpParse(url, cookie, MetaOutcomes, ListOutcomes)

SpecParse == Init /\ [][ParseNext]_vars

\* every operation that works on the temporary storage, together: downloads
\* of two keys that end normally, with an error or in the timeout, a subtitle
\* request, a parse request, the two queries, the retention manager
StorageKeys ==
  {DlReq("y2b", YouTubeID, Absent, Chars("137"), Absent, FALSE, FALSE),
   DlReq("bilibili", BilibiliID, Chars("2"), Chars("30080"), Absent, FALSE, FALSE)}
StorageSubtitles ==
  {SubReq("y2b", YouTubeID, Absent, Chars("en"), Chars(".vtt"), Chars("native"))}
StorageUrls == {Chars("https://www.youtube.com/watch?v=dQw4w9WgXcQ")}
StorageOutcomes == {ToolOk(Chars("mp4"), <<>>), ToolFail(<<>>), ToolTimeout}
StorageSubtitleOutcomes == {SubOk(Chars("hello"), "info", VideoTitle), SubFail}
StorageSubtitle(r) ==
  /\ ServeSubtitleWhen(r.website, r.id, r.p, r.locale, r.ext, r.type, FALSE,
                       StorageSubtitleOutcomes)
  /\ UNCHANGED <<rateLimitStore, inbox, running, videoStore>>
StorageNext ==
  \/ \E r \in StorageKeys :
       HttpDownload(r.website, r.v, r.p, r.format, r.recode, r.merge, r.cookie,
                    StorageOutcomes)
  \/ \E r \in StorageSubtitles : StorageSubtitle(r)
  \/ \E url \in StorageUrls :
       HttpParse(url, FALSE, {MetaOk("valid"), MetaFail}, {ListFail})
  \/ \E r \in StorageKeys : Status(r.v, r.format, r.p)
  \/ \E df \in SweepDf : Stats(df)
  \/ \E df \in SweepDf : Cleanup(df)
  \/ RecreateTmpDir
  \/ Tick(maxAge)

SpecStorage == Init /\ [][StorageNext]_vars

\* the parse requests for the shapes of a YouTube URL: the shapes the
\* platform resolver is to support, each with and without further query
\* parameters, and URLs of no supported shape
WatchUrls ==
  {Chars("https://www.youtube.com/watch?v=dQw4w9WgXcQ"),
   Chars("https://www.youtube.com/watch?v=dQw4w9WgXcQ&t=42"),
   Chars("https://www.youtube.com/watch?feature=share&v=dQw4w9WgXcQ"),
   Chars("https://m.youtube.com/watch?v=dQw4w9WgXcQ")}
ShortLinkUrls ==
  {Chars("https://youtu.be/dQw4w9WgXcQ"),
   Chars("https://youtu.be/dQw4w9WgXcQ?t=42")}
EmbedUrls ==
  {Chars("https://www.youtube.com/embed/dQw4w9WgXcQ"),
   Chars("https://www.youtube.com/embed/dQw4w9WgXcQ?start=5"),
   Chars("https://youtube.com/embed/dQw4w9WgXcQ")}
ShortsUrls ==
  {Chars("https://www.youtube.com/shorts/dQw4w9WgXcQ"),
   Chars("https://www.youtube.com/shorts/dQw4w9WgXcQ?feature=share")}
OtherUrls ==
  {Chars("https://vimeo.com/12345678901"),
   Chars("https://www.youtube.com/playlist?list=PL123456789"),
   Chars("https://www.bilibili.com/video/short"),
   Chars("https://www.bilibili.com/bangumi/play/ep123456789")}
ResolveUrls == WatchUrls \cup ShortLinkUrls \cup EmbedUrls \cup ShortsUrls \cup OtherUrls

ResolveNext ==
  \E url \in ResolveUrls, cookie \in BOOLEAN :
    HttpParse(url, cookie, {MetaOk("valid"), MetaFail, MetaTimeout}, ListOutcomes)

SpecResolve == Init /\ [][ResolveNext]_vars

\* the formats classified: heights around every threshold, no height, and
\* notes with and without a quality token
Heights ==
  {<<>>} \cup {<<h>> : h \in {0, 100, 143, 144, 240, 360, 480, 719, 720, 1079,
                             1080, 1440, 2159, 2160, 4320}}
FormatNotes ==
  {Absent, Chars("4K HDR"), Chars("1080p"), Chars("720p60"), Chars("HD"),
   Chars("Premium"), Chars("480p"), Chars("storyboard")}

ClassifyNext == \E height \in Heights, note \in FormatNotes : Classify(height, note)

SpecClassify == Init /\ [][ClassifyNext]_vars

\* the clients whose requests reach the rate limiter
Clients == {"10.0.0.1"}

RateNext ==
  \/ \E clientIP \in Clients : RateLimiter(clientIP)
  \/ \E t \in RateInstants : Elapse(t)

SpecRate == Init /\ [][RateNext]_vars

\* one client sending as fast as the limiter lets it, for more than an hour
BusyNext ==
  \/ \E clientIP \in Clients : RateLimiter(clientIP)
  \/ \E t \in BusyInstants : ElapseRefused(t)

SpecBusy == Init /\ [][BusyNext]_vars

\* the actions of the video store, called by the pages of the front end
StoreNext ==
  \/ \E video \in {<<>>} \cup {<<v>> : v \in ShownVideos(videoStore)} :
       SetCurrentVideo(video)
  \/ \E loading \in BOOLEAN : SetLoading(loading)
  \/ \E error \in {<<>>, <<"Failed to parse video">>} : SetError(error)
  \/ \E video \in ShownVideos(videoStore) : AddToHistory(video)
  \/ \E id \in ShownItems(videoStore) : RemoveFromHistory(id)
  \/ ClearHistory
  \/ \E id \in ShownItems(videoStore) : UpdateAccessCount(id)
  \/ \E quality \in {"720p", "1080p"} : SetDefaultQuality(quality)
  \/ \E autoPlay \in BOOLEAN : SetAutoPlay(autoPlay)

SpecStore == Init /\ [][StoreNext]_vars

\* The event loop.  The process has one thread for its handlers.  A request
\* is known by the number of its connection.  A request that has arrived
\* waits in inbox until the thread takes it; running is the request whose
\* handler the thread is in, stopped inside execSync until the extraction
\* tool exits, or Idle.  What the handler does before and after the tool's
\* run takes effect when execSync returns: nothing of the process runs in
\* between.
DownloadCall(r) == [op |-> "download", args |-> r]
ParseCall(url, cookie) == [op |-> "parse", args |-> [url |-> url, cookie |-> cookie]]

\* the requests on the connections: two clients asking for the same
\* download, one asking for another, one asking for a parse
LoopRequests ==
  <<DownloadCall(DlReq("y2b", YouTubeID, Absent, Chars("137"), Absent, FALSE, FALSE)),
    DownloadCall(DlReq("y2b", YouTubeID, Absent, Chars("137"), Absent, FALSE, FALSE)),
    DownloadCall(DlReq("bilibili", BilibiliID, Chars("2"), Chars("30080"), Absent,
                       FALSE, FALSE)),
    ParseCall(Chars("https://www.youtube.com/watch?v=dQw4w9WgXcQ"), FALSE)>>
LoopListings ==
  {ListOk(<<Chars("dQw4w9WgXcQ has no automatic captions"),
            Chars("dQw4w9WgXcQ has no subtitles")>>),
   ListFail}

\* the connection c is accepted
Arrive(c) ==
  /\ c \notin inbox
  /\ c # running
  /\ inbox' = inbox \cup {c}
  /\ UNCHANGED <<now, fs, pendingMkdir, req, resp, events, rateLimitStore,
                  running, videoStore>>

\* a thread that a callback may take while a handler waits in execSync
ThreadAlwaysFree(r) == TRUE

\* the one thread is free: no handler is on the stack.  execSync blocks the
\* thread until the tool has exited
ThreadFree(r) == r = Idle

\* the thread takes a waiting request and runs its handler up to execSync:
\* a download that passes validation has made its output directory by then
Begin(c) ==
  /\ ThreadFree(running)
  /\ c \in inbox
  /\ inbox' = inbox \ {c}
  /\ running' = c
  /\ LET call == LoopRequests[c]
     IN fs' = IF /\ call.op = "download"
                 /\ DownloadQueryInvalid(call.args.v, call.args.format) = <<>>
                 /\ DownloadInvalid(call.args.v, call.args.p, call.args.format) = <<>>
              THEN MkdirP(fs, DownloadPath(call.args.v, call.args.p,
                                           call.args.format), now)
              ELSE fs
  /\ UNCHANGED <<now, pendingMkdir, req, resp, events, rateLimitStore, videoStore>>

\* execSync returns and the handler runs to its reply
ToolReturns ==
  /\ running # Idle
  /\ LET call == LoopRequests[running]
     IN  \/ /\ call.op = "download"
            /\ ServeDownload(call.args.website, call.args.v, call.args.p,
                             call.args.format, call.args.recode,
                             call.args.merge, call.args.cookie,
                             {ToolOk(Chars("mp4"), <<>>), ToolFail(<<>>)})
         \/ /\ call.op = "parse"
            /\ ServeParse(call.args.url, call.args.cookie,
                          {MetaOk("valid"), MetaFail}, LoopListings)
  /\ running' = Idle
  /\ UNCHANGED <<rateLimitStore, inbox, videoStore>>

LoopNext ==
  \/ \E c \in DOMAIN LoopRequests : Arrive(c)
  \/ \E c \in DOMAIN LoopRequests : Begin(c)
  \/ ToolReturns

SpecLoop == Init /\ [][LoopNext]_vars

\* the hourly cron task: its callback runs when the thread is free
CronCleanup(df) == ThreadFree(running) /\ Cleanup(df)

\* the callback queued by a full purge runs when the thread is free
CronRecreate == ThreadFree(running) /\ RecreateTmpDir

\* the requests and the retention manager in the one process, the clock
\* advancing also while a tool runs
CronNext ==
  \/ \E c \in DOMAIN LoopRequests : Arrive(c)
  \/ \E c \in DOMAIN LoopRequests : Begin(c)
  \/ ToolReturns
  \/ \E df \in SweepDf : CronCleanup(df)
  \/ CronRecreate
  \/ Tick(1)

SpecCron == Init /\ [][CronNext]_vars



----------------------------------------------------------------------------
(* Properties of the Metadata Extractor                                     *)

\* line ends with s
IsSuffix(s, line) ==
  Len(s) <= Len(line) /\ SubSeq(line, Len(line) - Len(s) + 1, Len(line)) = s

ParseServed == req.op = "parse"

\* the metadata-extraction runs among the calls of the last request
MetaRuns ==
  {i \in Spawned(events) :
     StartsAt(events[i].cmd, 1, Chars("yt-dlp --print-json --skip-download "))}

FirstExtractionFailed ==
  ParseServed /\ MetaRuns # {} /\ events[1].status # "ok"

\* the request's URL resolves to Bilibili and carries no part number
BilibiliWithoutPart ==
  \E r \in {Resolve(req.url)} : r.website = "bilibili" /\ r.p = <<>>

\* the request's URL resolves to YouTube, or to Bilibili with a part number
YouTubeOrWithPart ==
  \E r \in {Resolve(req.url)} :
    r.website = "y2b" \/ (r.website = "bilibili" /\ r.p # <<>>)

ParseFailedReply == resp.status = 500 /\ ~resp.body.success

\* C1: when the URL of a parse resolves to Bilibili without a part number and
\* the first metadata extraction fails, exactly one more extraction is run, on
\* the URL with p=1 appended after "?" or "&"; when that run succeeds the call
\* either returns a result whose part is "1" or fails on the tool's output
\* not being JSON.
C1_BilibiliRetriesOnceWithPartOne ==
  (FirstExtractionFailed /\ BilibiliWithoutPart)
    => /\ MetaRuns = {1, 2}
       /\ \E sep \in {Chars("?p=1"), Chars("&p=1")} :
            Includes(events[2].cmd, Chars(" '") \o req.url \o sep \o Chars("' "))
       /\ ~Includes(events[1].cmd, Chars("p=1"))
       /\ events[2].status = "ok"
            => \/ /\ resp.status = 200
                  /\ resp.body.success
                  /\ resp.body.result.p = Chars("1")
               \/ resp = Reply(500, Rejected(ParseFailed \o BadJson))

\* a Bilibili URL with a query but no part failed at first, was retried with
\* "&p=1" appended, and the result returned carries part "1"
C1_Witness ==
  /\ ParseServed
  /\ req.url = Chars("https://www.bilibili.com/video/BV1ERROR17mD/?spm=1")
  /\ Len(events) = 3
  /\ events[1].status = "fail"
  /\ events[2].status = "ok"
  /\ Includes(events[2].cmd,
              Chars("'https://www.bilibili.com/video/BV1ERROR17mD/?spm=1&p=1'"))
  /\ resp.status = 200
  /\ resp.body.result.p = Chars("1")

\* C2: a parse whose first metadata extraction fails for a YouTube URL, or
\* for a Bilibili URL with a part number, fails after that one run; a parse
\* whose retry fails fails after the two runs; no parse runs more than two
\* metadata extractions.
C2_FailureIsTerminal ==
  /\ (FirstExtractionFailed /\ YouTubeOrWithPart)
       => /\ ParseFailedReply
          /\ MetaRuns = {1}
          /\ Len(events) = 1
  /\ (FirstExtractionFailed /\ 2 \in MetaRuns /\ events[2].status # "ok")
       => /\ ParseFailedReply
          /\ MetaRuns = {1, 2}
          /\ Len(events) = 2
  /\ ParseServed => Cardinality(MetaRuns) <= 2

\* the retry of a Bilibili URL without a part number timed out, and the call
\* failed after two runs
C2_Witness ==
  /\ ParseServed
  /\ req.url = Chars("https://www.bilibili.com/video/BV1ERROR17mD")
  /\ Len(events) = 2
  /\ events[1].status = "fail"
  /\ events[2].status = "timeout"
  /\ Includes(events[2].cmd, Chars("BV1ERROR17mD?p=1"))
  /\ ParseFailedReply

\* the listing run of the last request
ListingRun == events[Len(events)]
ListingServed ==
  /\ ParseServed /\ resp.status = 200
  /\ StartsAt(ListingRun.cmd, 1, Chars("yt-dlp --list-subs "))

\* the first blank-delimited token of a trimmed line
FirstToken(line) ==
  IF \E i \in 1..Len(line) : line[i] = " "
  THEN SubSeq(line, 1, (CHOOSE i \in 1..Len(line) :
                          line[i] = " " /\ \A j \in 1..(i - 1) : line[j] # " ") - 1)
  ELSE line

\* a full language code: two lower-case letters with an optional region or
\* script suffix ("es-419", "zh-Hans"), or danmaku
IsLanguageCode(tok) ==
  \/ tok = Chars("danmaku")
  \/ /\ Len(tok) >= 2
     /\ AllIn(SubSeq(tok, 1, 2), Lower)
     /\ Len(tok) > 2 => /\ tok[3] = "-"
                        /\ Len(tok) >= 4
                        /\ AllIn(SubSeq(tok, 4, Len(tok)), Alpha \cup Digit)

\* the lines of the listing that follow the first "Available subtitles for"
\* header, <<>> when there is none
AfterOfficialHeader(lines) ==
  LET hs == {i \in 1..Len(lines) :
               HasHeader(Trim(lines[i]), Chars("Available subtitles for "))}
  IN IF hs = {} THEN <<>>
     ELSE SubSeq(lines, (CHOOSE i \in hs : \A j \in hs : i <= j) + 1, Len(lines))

\* the full codes of the language lines at the head of ls, blank lines and
\* the column header passed over, up to the first other line
RECURSIVE FullCodes(_)
FullCodes(ls) ==
  IF ls = <<>> THEN <<>>
  ELSE IF Trim(ls[1]) = <<>> \/ FirstToken(Trim(ls[1])) = Chars("Language")
    THEN FullCodes(Tail(ls))
  ELSE IF IsLanguageCode(FirstToken(Trim(ls[1])))
    THEN <<FirstToken(Trim(ls[1]))>> \o FullCodes(Tail(ls))
  ELSE <<>>

\* C12: for listing output with an "Available subtitles for ...:" header the
\* scanner returns the full language code of every language line that
\* follows, region or script suffix included, in the order of the lines.
C12_ScannerReturnsFullCodes ==
  (ListingServed /\ ListingRun.status = "ok"
     /\ FullCodes(AfterOfficialHeader(ListingRun.output)) # <<>>)
    => resp.body.result.subs = FullCodes(AfterOfficialHeader(ListingRun.output))

\* an "Available automatic captions for ...:" line stands in the listing
\* before the first "Available subtitles for ...:" line, where the scanner
\* stops reading headers
AutoSeenBeforeStop(lines) ==
  \E i \in 1..Len(lines) :
    /\ HasHeader(Trim(lines[i]), Chars("Available automatic captions for "))
    /\ \A j \in 1..i :
         ~HasHeader(Trim(lines[j]), Chars("Available subtitles for "))

\* C13: when the listing holds no official code the scanner returns ["auto"]
\* if an automatic-captions header was read before it stopped and []
\* otherwise; when it holds official codes the result has one entry for
\* each of them and none of the entries is "auto".
C13_AutoOnlyWithoutOfficial ==
  (ListingServed /\ ListingRun.status = "ok")
    => LET lines == ListingRun.output
           official == FullCodes(AfterOfficialHeader(lines))
           subs == resp.body.result.subs
       IN IF official = <<>>
          THEN subs = IF AutoSeenBeforeStop(lines) THEN <<Chars("auto")>> ELSE <<>>
          ELSE /\ Len(subs) = Len(official)
               /\ \A i \in 1..Len(subs) :
                    subs[i] # Chars("auto") /\ StartsAt(official[i], 1, subs[i])

\* a listing with an automatic-captions header and no official section gave
\* ["auto"]
C13_Witness ==
  /\ ListingServed /\ ListingRun.status = "ok"
  /\ AutoSeenBeforeStop(ListingRun.output)
  /\ AfterOfficialHeader(ListingRun.output) = <<>>
  /\ resp.body.result.subs = <<Chars("auto")>>

\* C14: when the listing run fails or times out after a metadata extraction
\* that succeeded, the parse still answers with a result, and the result's
\* list of available subtitles is empty.
C14_ListingFailureIsNotPropagated ==
  (ParseServed /\ events # <<>>
     /\ StartsAt(ListingRun.cmd, 1, Chars("yt-dlp --list-subs "))
     /\ ListingRun.status # "ok")
    => /\ resp.status = 200
       /\ resp.body.success
       /\ resp.body.result.subs = <<>>

\* the listing run timed out after the retry of a Bilibili URL had
\* succeeded, and the parse answered with an empty list
C14_Witness ==
  /\ ListingServed
  /\ ListingRun.status = "timeout"
  /\ Len(events) = 3 /\ events[2].status = "ok"
  /\ resp.body.result.subs = <<>>
  /\ resp.body.result.title = VideoTitle

\* C15: every supported shape of a YouTube URL for one video (watch, youtu.be
\* short link, embed, shorts, with or without further query parameters) is
\* accepted by the parse request, which runs the extraction tool for it, and
\* a result returned names the platform YouTube and the same 11-character
\* identifier.
C15_EveryYouTubeShapeResolves ==
  (ParseServed
     /\ req.url \in WatchUrls \cup ShortLinkUrls \cup EmbedUrls \cup ShortsUrls)
    => /\ MetaRuns # {}
       /\ resp.status = 200
            => resp.body.result.website = "y2b" /\ resp.body.result.v = YouTubeID

\* C16: a parse of a URL that none of parseVideo's patterns matches fails
\* without a subprocess and without a change to the file tree, and when the
\* URL reaches parseVideo the failure is the unsupported-URL error.
C16_UnmatchedUrlFailsWithoutEffect ==
  (ParseServed /\ req.url \in OtherUrls \cup ShortsUrls)
    => /\ events = <<>>
       /\ DOMAIN fs = {Root} /\ pendingMkdir = 0
       /\ \/ resp = Reply(400, Rejected(Chars("Invalid URL format")))
          \/ resp = Reply(500, Rejected(UnsupportedUrl))
       /\ isValidURL(req.url) => resp.status = 500

\* a shorts URL passed the middleware and parseVideo failed on it with the
\* unsupported-URL error, no call made
C16_Witness ==
  /\ ParseServed
  /\ req.url = Chars("https://www.youtube.com/shorts/dQw4w9WgXcQ")
  /\ resp = Reply(500, Rejected(UnsupportedUrl))
  /\ events = <<>>

\* the runs of the last request that list subtitles
ListingRuns ==
  {i \in Spawned(events) : StartsAt(events[i].cmd, 1, Chars("yt-dlp --list-subs "))}

\* the URL between the quotes of the command is u
RunsOn(cmd, u) == Includes(cmd, Chars(" '") \o u \o Chars("' "))

\* the listing is the last call of the request, every call before it is a
\* metadata extraction, and the last of these succeeded
ListingComesLast ==
  /\ ListingRuns = {Len(events)}
  /\ MetaRuns = 1..(Len(events) - 1)
  /\ events[Len(events) - 1].status = "ok"

\* C21 as stated: the subtitle listing of a parse runs after the metadata
\* was extracted and processed, and it is given the URL of the request, also
\* when the extraction succeeded only on the retry with p=1.
C21_ListingReceivesOriginalUrl ==
  (ParseServed /\ ListingRuns # {})
    => /\ ListingComesLast
       /\ RunsOn(ListingRun.cmd, req.url)

\* C21, amended: the subtitle listing of a parse runs after the metadata was
\* extracted and processed, and it is given the URL of the extraction that
\* succeeded: the URL of the request after one extraction, the URL with p=1
\* appended after the retry.
C21_ListingReceivesExtractedUrl ==
  (ParseServed /\ ListingRuns # {})
    => /\ ListingComesLast
       /\ Len(events) = 2 => RunsOn(ListingRun.cmd, req.url)
       /\ Len(events) = 3 =>
            /\ ~RunsOn(ListingRun.cmd, req.url)
            /\ \E sep \in {Chars("?p=1"), Chars("&p=1")} :
                 /\ RunsOn(events[2].cmd, req.url \o sep)
                 /\ RunsOn(ListingRun.cmd, req.url \o sep)

\* the extraction for a Bilibili URL without a part number succeeded on the
\* retry, and the listing was run on the URL with ?p=1
C21_Witness ==
  /\ ParseServed
  /\ req.url = Chars("https://www.bilibili.com/video/BV1ERROR17mD")
  /\ Len(events) = 3
  /\ events[1].status = "fail" /\ events[2].status = "ok"
  /\ ListingRuns = {3}
  /\ RunsOn(events[3].cmd, Chars("https://www.bilibili.com/video/BV1ERROR17mD?p=1"))
  /\ resp.status = 200

\* C29: every run of the extraction tool made by a parse is given the
\* canonical URL of the video, which holds the identifier and, for Bilibili,
\* the part number, and nothing else of the request's URL.
C29_ToolReceivesCanonicalUrl ==
  ParseServed =>
    \A i \in Spawned(events) :
      \E r \in {Resolve(req.url)} :
        \E p \in {r.p, Chars("1")} :
          RunsOn(events[i].cmd, getWebsiteUrl(r.website, r.videoID, p))

\* C39: the URL grammar of the middleware (isValidURL) and the resolver of
\* parseVideo agree: a URL is accepted by the middleware exactly when the
\* resolver assigns it a platform and a video id.
C39_MiddlewareAndResolverAgree ==
  (ParseServed /\ Truthy(req.url)) =>
     (isValidURL(req.url) <=> Resolve(req.url).website # "none")

----------------------------------------------------------------------------
(* Properties of the Retention Manager                                      *)

\* the df output whose data line reports the utilization u
Reports(df, u) == df = DfOk(<<DfHeader, DfLine(u), <<>>>>)
AtOrBelowCeiling == {Chars("45"), Chars("90")}
AboveCeiling == {Chars("91"), Chars("100")}

\* the state is the one a cleanup cycle has just left
AfterCleanup == req.op = "cleanup" /\ resp.at = now

\* the step is a cleanup cycle
CleanupStep == req'.op = "cleanup" /\ Cleanup(req'.df)

\* the direct children of the root older than max-age at the current time
Expired(f) == {q \in DOMAIN f : Len(q) = 1 /\ now - f[q].mtime > maxAge}

\* C8: when the reported disk utilization does not exceed the ceiling, a
\* cleanup cycle removes the direct children of the temporary-storage root
\* whose own modification time is older than max-age, with everything below
\* them, and leaves every other node as it was.
C8_SweepRemovesExactlyExpired ==
  [][(CleanupStep /\ \E u \in AtOrBelowCeiling : Reports(req'.df, u))
         => fs' = [q \in {r \in DOMAIN fs :
                            \A o \in Expired(fs) : ~IsPrefix(o, r)} |-> fs[q]]]_vars

\* a sweep below the ceiling has removed one child and kept another
C8_Witness ==
  /\ AfterCleanup
  /\ \E u \in AtOrBelowCeiling : Reports(req.df, u)
  /\ resp.removed # {}
  /\ Children(fs, Root) # {}

\* C9: a cleanup cycle that measures a utilization above the ceiling (more
\* than 90 percent) removes every node of the temporary-storage tree whatever
\* its age; a cycle that measures a utilization at or below the ceiling does
\* no full purge: the root and every child not older than max-age stay.
C9_PurgeOnlyAboveCeiling ==
  [][CleanupStep =>
       /\ (\E u \in AboveCeiling : Reports(req'.df, u)) => DOMAIN fs' = {}
       /\ (\E u \in AtOrBelowCeiling : Reports(req'.df, u)) =>
            /\ Exists(fs, Root) => Exists(fs', Root)
            /\ \A q \in DOMAIN fs :
                 (\A o \in Expired(fs) : ~IsPrefix(o, q)) => q \in DOMAIN fs'
            /\ pendingMkdir' = pendingMkdir]_vars

\* a cycle above the ceiling has removed children of the root none of which
\* was older than max-age
C9_Witness ==
  /\ AfterCleanup
  /\ \E u \in AboveCeiling : Reports(req.df, u)
  /\ resp.purged
  /\ resp.removed # {}
  /\ now <= maxAge
  /\ DOMAIN fs = {}

MeasuredAbove(r) == \E u \in AboveCeiling : Reports(r.df, u)

\* C22: a cleanup cycle whose disk check triggers the full purge does not
\* carry out the age-based sweep: the temporary-storage root is not read and
\* the cycle ends with the root as the purge left it.
C22_PurgeSkipsSweep ==
  [][(CleanupStep /\ MeasuredAbove(req'))
       => /\ ~resp'.swept
          /\ \A i \in 1..Len(events') : events'[i].call # "readdir"
          /\ DOMAIN fs' = {}]_vars

\* a cycle above the ceiling ran when the children of the root were older
\* than max-age: it purged them and made no other call than df
C22_Witness ==
  /\ AfterCleanup
  /\ MeasuredAbove(req)
  /\ now > maxAge
  /\ resp.removed # {}
  /\ ~resp.swept
  /\ Len(events) = 1 /\ events[1].tool = "df"

\* C23: a full purge removes the temporary-storage root and recreates it
\* within the same cleanup cycle: when the cycle ends the root exists.
C23_RootExistsAfterPurge ==
  [][(CleanupStep /\ MeasuredAbove(req')) => Exists(fs', Root)]_vars
\* the step is a cleanup cycle in which the file operations on some items
\* may throw
SweepStep == req'.op = "cleanup" /\ CleanupWhen(req'.df, req'.failing)

\* C31: during an age-based sweep an error while examining or removing one
\* direct child of the root does not abort the sweep: every other direct
\* child older than max-age is removed, with what is below it, in the same
\* cycle.
C31_ErrorDoesNotAbortSweep ==
  [][(SweepStep /\ resp'.swept /\ ~resp'.purged)
       => \A q \in Expired(fs) \ req'.failing :
            \A r \in DOMAIN fs : IsPrefix(q, r) => r \notin DOMAIN fs']_vars

\* a sweep met an error on one expired child, which is still there, and
\* removed another
C31_Witness ==
  /\ AfterCleanup /\ resp.swept /\ ~resp.purged
  /\ \E q \in req.failing : q \in Expired(fs)
  /\ resp.removed # {}
\* C35: an age-based sweep never removes a file whose own modification time
\* is within max-age, files nested in a top-level directory that was created
\* earlier included.
C35_SweepKeepsFreshFiles ==
  [][(CleanupStep /\ resp'.swept /\ ~resp'.purged)
       => \A q \in DOMAIN fs :
            (fs[q].kind = "file" /\ now - fs[q].mtime <= maxAge)
               => q \in DOMAIN fs']_vars
\* C32: no operation other than the cleanup cycle of the Retention Manager
\* deletes a node below the temporary-storage root: a parse, a download, a
\* subtitle download, a status query and a statistics query leave every
\* node that existed in place.
C32_OnlyCleanupDeletes ==
  [][CleanupStep \/ \A q \in DOMAIN fs : q \in DOMAIN fs' /\ fs'[q].kind = fs[q].kind]_vars

\* a request wrote its output next to the stored output of another video
C32_Witness ==
  /\ req.op \in {"download", "subtitle"}
  /\ resp.status = 200
  /\ Cardinality(Children(fs, Root)) >= 2
  /\ Cardinality({q \in DOMAIN fs : fs[q].kind = "file"}) >= 3




----------------------------------------------------------------------------
(* Properties of the Subtitle Downloader                                    *)

SubtitleServed == req.op = "subtitle"

\* the container the extraction tool writes for the request
NativeContainer(r) ==
  IF r.locale = Chars("danmaku") THEN Chars(".xml")
  ELSE IF r.website = "y2b" THEN Chars(".vtt")
  ELSE Chars(".srt")

\* the request carries a malformed id, part, locale, extension or origin type
MalformedSubtitle(r) ==
  \/ r.id \in BadIDs
  \/ r.p \in BadParts
  \/ r.locale \in BadLocales
  \/ r.ext \in BadExts
  \/ r.type \in BadTypes

C5_TranscodeIffContainersDiffer ==
  SubtitleServed =>
    /\ Runs(events, "ffmpeg") # {} => req.ext # NativeContainer(req)
    /\ (\E i \in Runs(events, "yt-dlp") : events[i].status = "ok") =>
         (Cardinality(Runs(events, "ffmpeg")) =
            IF req.ext # NativeContainer(req) THEN 1 ELSE 0)

\* a YouTube request for .srt has run the transcoding tool
C5_Witness ==
  /\ SubtitleServed
  /\ req.website = "y2b" /\ req.ext = Chars(".srt")
  /\ \E i \in Runs(events, "yt-dlp") : events[i].status = "ok"
  /\ Cardinality(Runs(events, "ffmpeg")) = 1

\* C6: a subtitle request with a malformed id, extension, origin type, part
\* number or locale is rejected by the local validation (middleware and
\* downloadSubtitle) before any directory is created and before any
\* subprocess is spawned.
C6_MalformedSubtitleRejected ==
  (SubtitleServed /\ MalformedSubtitle(req)) =>
    /\ events = <<>>
    /\ ~resp.body.success

\* the request with locale "123" was rejected
C6_Witness ==
  /\ SubtitleServed
  /\ req.locale = Chars("123")
  /\ resp.status = 400
  /\ events = <<>>

\* the conversion of the last request failed and the request succeeded
FellBack ==
  /\ SubtitleServed
  /\ \E i \in Runs(events, "ffmpeg") : events[i].status = "fail"
  /\ resp.status = 200 /\ resp.body.success

\* C26: on the fallback after a failed conversion the file name returned
\* ends with "." and the extension of the native container (".vtt" for
\* YouTube), the container of the content returned.
C26_FallbackNameHasNativeExtension ==
  FellBack => IsSuffix(NativeContainer(req), resp.body.filename)

\* the metadata sidecar of the request is present and parses, with a title
SidecarTitled(f, r) ==
  /\ Exists(f, InfoFile(r.id, r.p))
  /\ f[InfoFile(r.id, r.p)].data.type = "info"
  /\ f[InfoFile(r.id, r.p)].data.body # <<>>

\* the metadata sidecar of the request is missing or does not parse
SidecarUnreadable(f, r) ==
  \/ ~Exists(f, InfoFile(r.id, r.p))
  \/ f[InfoFile(r.id, r.p)].data.type # "info"

\* C27: every successful subtitle result, with or without conversion and
\* on the fallback alike, carries the title of the metadata sidecar when the
\* sidecar is present and parses, and the video identifier when the sidecar
\* is missing or does not parse.
C27_TitleFromSidecar ==
  (SubtitleServed /\ resp.status = 200 /\ resp.body.success)
    => /\ SidecarTitled(fs, req)
            => resp.body.title = fs[InfoFile(req.id, req.p)].data.body
       /\ SidecarUnreadable(fs, req) => resp.body.title = req.id

\* the request passed the validation of the route and of downloadSubtitle
SubtitleValidated(r) ==
  /\ SubtitleBodyInvalid(r.id, r.locale, r.ext, r.type) = <<>>
  /\ SubtitleInvalid(r.id, r.p, r.locale, r.ext, r.type) = <<>>

\* C38: downloadSubtitle always returns a value.  For a request that passed
\* validation the extraction tool is run exactly once and the transcoding
\* tool at most once, and only after the extraction tool has returned
\* successfully; a failure or a timeout of the extraction tool is returned
\* as success = false with an error text, and the transcoding tool is not
\* run.
C38_ExtractOnceThenTranscode ==
  SubtitleServed =>
    /\ resp.body.success \in BOOLEAN
    /\ ~resp.body.success => Truthy(resp.body.error)
    /\ SubtitleValidated(req) =>
         /\ Cardinality(Runs(events, "yt-dlp")) = 1
         /\ Cardinality(Runs(events, "ffmpeg")) <= 1
         /\ \A j \in Runs(events, "ffmpeg") :
              \E i \in Runs(events, "yt-dlp") : i < j /\ events[i].status = "ok"
         /\ (\E i \in Runs(events, "yt-dlp") : events[i].status # "ok")
              => /\ Runs(events, "ffmpeg") = {}
                 /\ resp.status = 200
                 /\ ~resp.body.success

\* the extraction tool ran into its timeout for a request that asks for a
\* conversion: the one call of a tool is that run, the answer is a failure
C38_Witness ==
  /\ SubtitleServed
  /\ SubtitleValidated(req)
  /\ req.ext # NativeContainer(req)
  /\ Cardinality(Spawned(events)) = 1
  /\ events[Len(events)].status = "timeout"
  /\ ~resp.body.success

----------------------------------------------------------------------------
(* Properties of the Video Downloader                                       *)

DownloadServed == req.op = "download"

\* the lines of the error text of the extraction-tool run that failed
FailedRunLines ==
  LET i == CHOOSE k \in Runs(events, "yt-dlp") : events[k].status # "ok"
  IN ExecErrorLines(events[i].cmd,
                    [status |-> events[i].status, stderr |-> events[i].output])

\* C3: when the extraction tool fails (non-zero exit or timeout) for a
\* download request that passed validation, the call returns a descriptor
\* with success = true, downloadSucceed = false, dest = the failure marker,
\* and a cause taken from the first line of the error text that contains
\* "ERROR", or the unknown-cause marker when no line contains it.
C3_ToolFailureIsReportedAsData ==
  (DownloadServed /\ \E i \in Runs(events, "yt-dlp") : events[i].status # "ok")
    => /\ resp.status = 200
       /\ resp.body.result.success
       /\ ~resp.body.result.result.downloadSucceed
       /\ resp.body.result.result.dest = FailureMarker
       /\ LET lines == FailedRunLines
              cause == resp.body.result.result.metadata
              hits == {k \in 1..Len(lines) : Includes(lines[k], Chars("ERROR"))}
          IN IF hits = {} THEN cause = Chars("Unknown cause")
             ELSE LET first == CHOOSE k \in hits : \A j \in hits : k <= j
                  IN /\ IsSuffix(cause, lines[first])
                     /\ StartsAt(cause, 1, Chars("ERROR"))

\* the tool failed with two error lines and the first one is the cause
C3_Witness ==
  /\ DownloadServed
  /\ \E i \in Runs(events, "yt-dlp") :
       /\ events[i].status = "fail"
       /\ events[i].output = <<Chars("ERROR: first"), Chars("ERROR: second")>>
  /\ req.v = YouTubeID
  /\ resp.body.result.result.metadata = Chars("ERROR: first")

\* C7: a download request with a malformed video id, a format spec that is
\* neither a bare identifier nor a merge pair, or a non-numeric part number
\* creates no output directory and runs no subprocess.
C7_MalformedDownloadHasNoEffect ==
  (DownloadServed /\ (req.v \in BadIDs \/ req.format \in BadFormats
                        \/ req.p \in BadParts))
    => events = <<>>

\* the requests with format "???" and with part "1a" were served without
\* any call
C7_Witness ==
  /\ DownloadServed
  /\ req.format = Chars("???") \/ req.p = Chars("1a")
  /\ events = <<>>
  /\ DOMAIN fs = {Root}

\* the directories that hold a media file
PopulatedDirs(f) ==
  {Parent(q) : q \in {r \in DOMAIN f : f[r].kind = "file" /\ f[r].data.type = "media"}}

\* the directories that hold no directory: the output directories
OutputDirs(f) ==
  {q \in DOMAIN f \ {Root} :
     f[q].kind = "dir" /\ \A r \in Children(f, q) : f[r].kind = "file"}

\* the output directory of the request last served
KeyDir(r) == <<r.v>> \o (IF r.p = <<>> THEN <<>> ELSE <<Chars("p") \o r.p>>) \o <<r.format>>

\* C11: every download request for a key, the first and any later one,
\* targets the one output directory named by identity, part and format: the
\* request adds no other output directory and populates no other directory,
\* what an earlier request left stays, after a normal run of the tool the
\* directory is populated, and getDownloadStatus for the key then reports
\* the download as existing, whoever asks.
C11_RepeatedDownloadSharesDirectory ==
  [][req'.op = "download"
       => /\ OutputDirs(fs') = OutputDirs(fs) \cup {KeyDir(req')}
          /\ PopulatedDirs(fs') \subseteq PopulatedDirs(fs) \cup {KeyDir(req')}
          /\ \A q \in DOMAIN fs : q \in DOMAIN fs' /\ fs'[q].kind = fs[q].kind
          /\ resp'.body.result.result.downloadSucceed
               => KeyDir(req') \in PopulatedDirs(fs')
          /\ getDownloadStatus(fs', req'.v, req'.format, req'.p).success
          /\ getDownloadStatus(fs', req'.v, req'.format, req'.p).result.dest
               = Chars("files/") \o RelPath(KeyDir(req'))]_vars

\* two requests for part 2 of the Bilibili video in format 30080 have run:
\* the one output directory of the key holds the media files of both, and
\* the status of the key is found
C11_Witness ==
  /\ DownloadServed
  /\ req.v = BilibiliID /\ req.p = Chars("2")
  /\ \A ext \in {Chars("mp4"), Chars("webm")} :
       KeyDir(req) \o <<BilibiliID \o Chars(".") \o ext>> \in DOMAIN fs
  /\ OutputDirs(fs) = {KeyDir(req)}
  /\ PopulatedDirs(fs) = {KeyDir(req)}
  /\ getDownloadStatus(fs, req.v, req.format, req.p).success

\* the positions at which a format spec splits into a merge pair AxB with A
\* and B not empty
PairSplits(format) == {i \in 2..(Len(format) - 1) : format[i] = "x"}

\* the extraction-tool run of the last request
DownloadRun == events[CHOOSE i \in Runs(events, "yt-dlp") : TRUE]

\* C17: for every format spec that downloadVideo's validation accepts, the
\* selector passed to the extraction tool after -f is the spec itself when
\* the spec is a bare identifier, and "A+B" when the spec is the merge pair
\* "AxB".
C17_SelectorTranslatesMergePair ==
  (DownloadServed /\ Runs(events, "yt-dlp") # {})
    => LET format == req.format
           selected(s) == Includes(DownloadRun.cmd,
                                   Chars(" -f ") \o s \o Chars(" -o '"))
       IN IF PairSplits(format) = {}
          THEN selected(format)
          ELSE \A i \in PairSplits(format) :
                 selected(SubSeq(format, 1, i - 1) \o Chars("+")
                            \o SubSeq(format, i + 1, Len(format)))

\* the extraction tool ran for the last request and exited normally
DownloadRunOk == DownloadServed /\ \E i \in Runs(events, "yt-dlp") : events[i].status = "ok"

\* the names a produced file can have: the identifier, or the identifier with
\* "_merged", and a container
ProducedNames(r) ==
  {base \o Chars(".") \o ext :
     base \in {r.v, r.v \o Chars("_merged")}, ext \in {Chars("mp4"), Chars("webm")}}

\* the produced-file names that a line of the tool's output gives as a path
\* inside the output directory of the request
NamedInOutput(r, lines) ==
  {n \in ProducedNames(r) :
     \E k \in 1..Len(lines) :
       IsSuffix(JoinPath(KeyDir(r)) \o Chars("/") \o n, lines[k])}

\* C24: after a normal run of the tool whose output names the produced file
\* inside the output directory, dest is files/<directory>/<produced file>,
\* for a single stream and for a merge (<id>_merged.<ext>) alike; dest is
\* marked unknown only when the output names no such path; in both cases
\* downloadSucceed is true.
C24_DestNamesProducedFile ==
  DownloadRunOk =>
    LET named == NamedInOutput(req, DownloadRun.output)
        dest == resp.body.result.result.dest
        inDir(n) == Chars("files/") \o RelPath(KeyDir(req)) \o Chars("/") \o n
    IN /\ resp.body.result.result.downloadSucceed
       /\ IF named = {} THEN dest = inDir(Chars("Unknown dest"))
          ELSE \E n \in named : dest = inDir(n)

\* the selector of a command: what follows " -f " up to the next blank
Selector(cmd) ==
  LET i == CHOOSE k \in 1..Len(cmd) :
             /\ StartsAt(cmd, k, Chars(" -f "))
             /\ \A j \in 1..(k - 1) : ~StartsAt(cmd, j, Chars(" -f "))
  IN SubSeq(cmd, i + 4, RunEnd(cmd, i + 4, WordDash \cup {"+"}))
CombinesStreams(cmd) == Includes(Selector(cmd), Chars("+"))
MergeForced(cmd) == Includes(cmd, Chars(" --merge-output-format "))

\* C25 as stated: the invocation forces a merge output container whenever
\* its selector combines two streams, and never for a single-stream
\* selector.
C25_MergeForcedIffCombined ==
  (DownloadServed /\ Runs(events, "yt-dlp") # {})
    => (MergeForced(DownloadRun.cmd) <=> CombinesStreams(DownloadRun.cmd))

\* C25, amended: the invocation forces the merge output container (mp4)
\* exactly when the request asks for a merge and its format spec holds an
\* "x"; the selector then combines two streams, and for a single-stream
\* selector the container is never forced.  A request that does not ask for
\* a merge gets a combining selector without a forced container.
C25_MergeForcedIffRequested ==
  (DownloadServed /\ Runs(events, "yt-dlp") # {})
    => /\ MergeForced(DownloadRun.cmd)
            <=> (req.merge /\ Includes(req.format, Chars("x")))
       /\ MergeForced(DownloadRun.cmd)
            => /\ CombinesStreams(DownloadRun.cmd)
               /\ Includes(DownloadRun.cmd, Chars(" --merge-output-format mp4"))

\* a request for 137x140 without the merge flag has run the tool on the
\* selector 137+140 with no container forced
C25_Witness ==
  /\ DownloadServed
  /\ req.format = Chars("137x140") /\ ~req.merge
  /\ Runs(events, "yt-dlp") # {}
  /\ Selector(DownloadRun.cmd) = Chars("137+140")
  /\ ~MergeForced(DownloadRun.cmd)

\* the messages of the validations of a download request
InvalidArgumentMessages ==
  {Chars("Video ID and format are required"), Chars("Invalid video ID format"),
   Chars("Invalid part number format"), Chars("Invalid format specification")}

\* C28: a download request that fails the local validation is answered with
\* an invalid-argument failure whose message names the rejected input, not
\* with the download-failed descriptor of a failed tool run.
C28_InvalidArgumentIsReported ==
  (DownloadServed /\ (req.v \in BadIDs \/ req.format \in BadFormats
                        \/ req.p \in BadParts))
    => /\ resp.status # 200
       /\ ~resp.body.success
       /\ resp.body.error \in InvalidArgumentMessages

\* C30: within one download request the output directory is created first,
\* the extraction tool is run second, and the output is scanned for the
\* produced path third; the scan is made only after a run that succeeded,
\* and when the tool is run the directory exists.
C30_DirectoryThenToolThenScan ==
  DownloadServed =>
    /\ \A i \in 1..Len(events) :
         /\ events[i].call = "mkdir" => i = 1 /\ events[i].path = KeyDir(req)
         /\ events[i].call = "exec" => i = 2 /\ events[1].call = "mkdir"
         /\ events[i].call = "scan-output"
              => i = 3 /\ events[2].call = "exec" /\ events[2].status = "ok"
    /\ Runs(events, "yt-dlp") # {} => Exists(fs, KeyDir(req))
    /\ DownloadRunOk => Len(events) = 3 /\ events[3].call = "scan-output"

\* the tool ran into the timeout after the directory was made: two calls,
\* no scan, the directory is there and empty
C30_Witness ==
  /\ DownloadServed
  /\ Len(events) = 2
  /\ events[1].call = "mkdir" /\ events[2].status = "timeout"
  /\ Exists(fs, KeyDir(req))
  /\ Children(fs, KeyDir(req)) = {}

StatusAsked == req.op = "status"

\* the answer reports the download as existing and succeeded
ReportsSucceeded(answer) ==
  answer.success /\ answer.result.downloadSucceed /\ ~answer.result.downloading

\* the download request last served passed validation and its tool run failed
ToolRunFailed ==
  DownloadServed /\ \E i \in Runs(events, "yt-dlp") : events[i].status # "ok"

\* C34: getDownloadStatus answers success with downloadSucceed = true exactly
\* when the output directory for identity, part and format exists, whatever
\* the outcome of the download: after a validated download whose tool run
\* failed the status of the same key reports success, and it keeps reporting
\* success until a cleanup cycle removes the directory.
C34_StatusReportsDirectoryOnly ==
  [][/\ (StatusAsked => (ReportsSucceeded(resp) <=> Exists(fs, KeyDir(req))))'
     /\ (ToolRunFailed
          => ReportsSucceeded(getDownloadStatus(fs, req.v, req.format, req.p)))'
     /\ \A k \in StorageKeys :
          (ReportsSucceeded(getDownloadStatus(fs, k.v, k.format, k.p))
             /\ ~CleanupStep)
            => ReportsSucceeded(getDownloadStatus(fs', k.v, k.format, k.p))]_vars

\* the status of a key whose only download failed is asked: the directory is
\* empty and the answer reports a succeeded download
C34_Witness ==
  /\ StatusAsked
  /\ ReportsSucceeded(resp)
  /\ Children(fs, KeyDir(req)) = {}

ClassifyServed == req.op = "classify"

\* the quality of a height by the descending thresholds alone
QualityByHeight(h) ==
  IF h >= 2160 THEN Chars("2160p") ELSE IF h >= 1440 THEN Chars("1440p")
  ELSE IF h >= 1080 THEN Chars("1080p") ELSE IF h >= 720 THEN Chars("720p")
  ELSE IF h >= 480 THEN Chars("480p") ELSE IF h >= 360 THEN Chars("360p")
  ELSE IF h >= 240 THEN Chars("240p") ELSE IF h >= 144 THEN Chars("144p")
  ELSE Chars("unknown")

\* C18: the classification of a video format always yields a quality; when a
\* non-zero height is given the quality follows from the height alone, by
\* the thresholds 2160, 1440, 1080, 720, 480, 360, 240, 144 (1080 gives
\* "1080p", "Full HD"); the note decides only when the height is absent or
\* zero (0 with "4K HDR" gives "2160p"), and with no height and no note the
\* quality is "unknown".
C18_HeightAloneDecides ==
  ClassifyServed
    => /\ (req.height # <<>> /\ req.height[1] # 0)
            => resp.quality = QualityByHeight(req.height[1])
       /\ req.height = <<1080>>
            => resp.quality = Chars("1080p") /\ resp.standard = Chars("Full HD")
       /\ (req.height = <<0>> /\ req.note = Chars("4K HDR"))
            => resp.quality = Chars("2160p")
       /\ (req.height \in {<<>>, <<0>>} /\ req.note = Absent)
            => resp.quality = Chars("unknown")

----------------------------------------------------------------------------
(* Properties of the rate limiter                                          *)

\* the timestamps of the client's requests that were let through and lie
\* less than the window before now
Admitted(timestamps, window) ==
  {i \in 1..Len(timestamps) : now - timestamps[i] < window}

\* C19: the limiter lets at most 10 requests of one client through within
\* one minute and at most 100 within one hour; a request of a client that
\* already has that many in the window is answered 429.
C19_TenPerMinuteHundredPerHour ==
  \A clientIP \in DOMAIN rateLimitStore :
    /\ Cardinality(Admitted(rateLimitStore[clientIP].requests,
                            RATE_LIMIT_WINDOW)) <= 10
    /\ Cardinality(Admitted(rateLimitStore[clientIP].hourlyRequests,
                            HourWindow)) <= 100

\* the timestamps of a list that lie in the window of the given length that
\* ends at the instant t, t included
InWindow(timestamps, t, window) ==
  {i \in 1..Len(timestamps) : timestamps[i] <= t /\ t - timestamps[i] < window}

\* the client's requests that were let through within the last hour and so
\* are on its hourly list
LetThrough(clientIP) == rateLimitStore[clientIP].hourlyRequests

\* C36: for every client the requests let through in any sliding window of
\* 60 seconds are at most 30 and those in any sliding window of one hour are
\* at most 200.  The windows are the ones that end at the current instant or
\* at a request let through within the last hour.
C36_ThirtyPerMinuteTwoHundredPerHour ==
  \A clientIP \in DOMAIN rateLimitStore :
    \A t \in {now} \cup {LetThrough(clientIP)[i] : i \in 1..Len(LetThrough(clientIP))} :
      /\ Cardinality(InWindow(LetThrough(clientIP), t, RATE_LIMIT_WINDOW)) <= 30
      /\ Cardinality(InWindow(LetThrough(clientIP), t, HourWindow)) <= 200
      /\ Cardinality(InWindow(rateLimitStore[clientIP].requests, t,
                              RATE_LIMIT_WINDOW)) <= 30

\* the client has used up the hour: 200 requests were let through within it,
\* the last 30 of them within the current minute
C36_Witness ==
  \E clientIP \in DOMAIN rateLimitStore :
    /\ Cardinality(InWindow(LetThrough(clientIP), now, HourWindow)) = 200
    /\ Cardinality(InWindow(LetThrough(clientIP), now, RATE_LIMIT_WINDOW)) = 30
    /\ now >= HourWindow

\* the step is a request of the client clientIP reaching the limiter
LimiterStep(clientIP) ==
  req'.op = "api" /\ req'.clientIP = clientIP /\ RateLimiter(clientIP)

\* the client's list as the step leaves it is what the filter for the window
\* keeps of the list before the step, with nothing added
OnlyFiltered(before, after, window) ==
  after = SelectSeq(before, LAMBDA timestamp : now - timestamp < window)

\* C37: a request answered 429 adds no timestamp to the client's minute
\* list nor to its hourly list, whichever limit refused it, so refused
\* requests do not postpone the client's next admission: a request is
\* refused exactly when 30 requests let through lie within the last minute
\* or 200 within the last hour.
C37_RefusalAddsNoTimestamp ==
  [][\A clientIP \in Clients :
       LimiterStep(clientIP) =>
         /\ resp'.status = 429 =>
              /\ clientIP \in DOMAIN rateLimitStore
              /\ OnlyFiltered(rateLimitStore[clientIP].requests,
                              rateLimitStore'[clientIP].requests,
                              RATE_LIMIT_WINDOW)
              /\ OnlyFiltered(rateLimitStore[clientIP].hourlyRequests,
                              rateLimitStore'[clientIP].hourlyRequests,
                              HourWindow)
         /\ resp'.status = 429 <=>
              /\ clientIP \in DOMAIN rateLimitStore
              /\ \/ Cardinality(InWindow(LetThrough(clientIP), now,
                                         RATE_LIMIT_WINDOW)) >= 30
                 \/ Cardinality(InWindow(LetThrough(clientIP), now,
                                         HourWindow)) >= 200]_vars

\* a client that had used up the hour and was refused is let through at the
\* instant at which the requests of its first minute have left the hour
C37_Witness ==
  /\ req.op = "api" /\ resp.status = 0
  /\ now = HourWindow
  /\ Cardinality(InWindow(LetThrough(req.clientIP), now, HourWindow)) = 171

----------------------------------------------------------------------------
(* Properties of the event loop                                            *)

\* C20: while the extraction tool runs for one request, a request that has
\* arrived can begin: its handler does not wait for the tool to exit.
C20_RequestBeginsDuringInvocation ==
  (running # Idle /\ inbox # {}) => ENABLED (\E c \in inbox : Begin(c))

\* a download is between the creation of its output directory and the
\* return of its tool run
InFlight == running # Idle /\ LoopRequests[running].op = "download"

\* the output directory of the download in flight
InFlightDir == KeyDir(LoopRequests[running].args)

\* C33: between the creation of a download's output directory and the
\* return of its tool run no cleanup cycle and no step of another request
\* takes place in the process: only connections arrive and time passes, and
\* the output directory of the download in flight stays in place until the
\* tool run has returned.
C33_NothingRunsDuringInvocation ==
  [][/\ running # Idle
          => \/ running' = Idle /\ req'.op = LoopRequests[running].op
             \/ running' = running
                  /\ UNCHANGED <<fs, pendingMkdir, req, resp, events, rateLimitStore>>
     /\ (InFlight => Exists(fs, InFlightDir))
     /\ (InFlight => Exists(fs, InFlightDir))']_vars

\* a download is in flight with its directory made and still empty, another
\* request waits, and the tree holds what an earlier download left
C33_Witness ==
  /\ InFlight
  /\ inbox # {}
  /\ Exists(fs, InFlightDir) /\ Children(fs, InFlightDir) = {}
  /\ \E q \in DOMAIN fs : fs[q].kind = "file"

----------------------------------------------------------------------------
(* Properties of the video store                                           *)

\* the store has just been asked to add a video to the history
AddsVideo(call) == call.op = "store" /\ call.added # <<>>

\* C40: the history holds at most 50 items and at most one item for a video
\* id, whatever actions of the store were called since the initial state;
\* adding a video that the history holds raises the access count of its item
\* by one and leaves the number of the items and their order as they were.
C40_HistoryBoundedAndUnique ==
  [][/\ Len(videoStore'.history) <= 50
     /\ Cardinality(VideoIds(videoStore'.history)) = Len(videoStore'.history)
     /\ (AddsVideo(req') /\ req'.added[1].id \in VideoIds(videoStore.history))
          => /\ Len(videoStore'.history) = Len(videoStore.history)
             /\ \A i \in 1..Len(videoStore.history) :
                  /\ videoStore'.history[i].id = videoStore.history[i].id
                  /\ videoStore'.history[i].video = videoStore.history[i].video
                  /\ videoStore'.history[i].access_count =
                       videoStore.history[i].access_count
                         + (IF videoStore.history[i].video.id = req'.added[1].id
                            THEN 1 ELSE 0)]_vars

\* the history is full, its oldest items have been dropped, and the video of
\* an item in its middle has just been added again
C40_Witness ==
  /\ AddsVideo(req)
  /\ Len(videoStore.history) = 50
  /\ videoStore.history[50].video.id > 1
  /\ \E i \in 2..49 :
       /\ videoStore.history[i].video = req.added[1]
       /\ videoStore.history[i].access_count = 2

====
